---- MODULE Spec2Model ----
(***************************************************************************)
(* cosmwasm-simulate: the simulation engine (Contract Instances, the       *)
(* Registry ENGINES, the global BLOCK_HEIGHT counter, recursive dispatch,  *)
(* hot reload), the gas-metered MockStorage and the MockQuerier.           *)
(***************************************************************************)
EXTENDS Integers, Sequences, FiniteSets, TLC

VARIABLES
    ENGINES,        \* main.rs ENGINES: address -> ContractInstance
    BLOCK_HEIGHT,   \* engine.rs static mut BLOCK_HEIGHT
    last,           \* what the operation just run was given and what it reported
    thr,            \* where each thread is in the code it runs, and its locals
    mock_storage,   \* a MockStorage on its own
    sop,            \* the MockStorage operation just run and the one before it
    qry,            \* the MockQuerier::query_raw call just made
    scans,          \* the scans made on mock_storage, in order, and what their
                    \* iterators have returned since
    iop,            \* the scan, next or copy just run on mock_storage
    stack,          \* the frames of the call in progress, followed step by step
    completed,      \* the instantiate and execute invocations that have returned
                    \* their success string so far, dispatched ones included
    lazy            \* the LazyMut that wraps ENGINES: "Init" or "Value"

vars ==
    <<ENGINES, BLOCK_HEIGHT, last, thr, mock_storage, sop, qry, scans, iop, stack, completed,
      lazy>>

(***************************************************************************)
(* Bounds of the model.                                                    *)
(***************************************************************************)
\* the block height counter is followed for this many increments
MaxHeightInc == 3
\* a response carries at most this many outbound messages
MaxMsgs == 2

(***************************************************************************)
(* Program constants.                                                      *)
(***************************************************************************)
BLOCK_HEIGHT_INIT == 12345
DENOM == "orai"
CHAIN_ID == "Oraichain"
BLOCK_TIME == "1571797419879305533"
DEFAULT_SENDER_ADDR == "fake_sender_addr"
DEFAULT_SENDER_BALANCE == "10000000000000000"

\* Option<T>: None is the empty sequence, Some(x) the one-element sequence
None == <<>>
Some(x) == <<x>>
Ok(v) == [ok |-> TRUE, val |-> v]
Err(e) == [ok |-> FALSE, val |-> e]

(***************************************************************************)
(* MockStorage (mock.rs): data is the BTreeMap, a function from the keys   *)
(* present to their values; keys and values are byte strings.              *)
(***************************************************************************)
MockStorage_default == [data |-> <<>>, iterators |-> <<>>]

Insert(map, k, v) == [x \in (DOMAIN map) \cup {k} |-> IF x = k THEN v ELSE map[x]]
Delete(map, k) == [x \in (DOMAIN map) \ {k} |-> map[x]]

get(st, key) ==
    [res |-> IF key \in DOMAIN st.data THEN Some(st.data[key]) ELSE None,
     gas |-> Len(key)]

setBroken(st, key, value) ==
    [st |-> st, gas |-> Len(key) + Len(value)]

set(st, key, value) ==
    [st |-> [st EXCEPT !.data = Insert(@, key, value)],
     gas |-> Len(key) + Len(value)]

\* a remove that reaches into the iterators already created
remove_through_iterators(st, key) ==
    [st |-> [data |-> Delete(st.data, key),
             iterators |-> [i \in DOMAIN st.iterators |->
                              [st.iterators[i] EXCEPT
                                 !.data = SelectSeq(@, LAMBDA item : item[1] # key)]]],
     gas |-> Len(key)]

remove(st, key) ==
    [st |-> [st EXCEPT !.data = Delete(@, key)],
     gas |-> Len(key)]

GAS_COST_LAST_ITERATION == 37
GAS_COST_RANGE == 11

\* the order of Vec<u8>: byte by byte, a proper prefix first
LexLess(a, b) ==
    \E i \in 1..(Len(b)) :
        /\ i <= Len(a) + 1
        /\ \A j \in 1..(i - 1) : a[j] = b[j]
        /\ (i = Len(a) + 1 \/ a[i] < b[i])

\* range_bounds: the start is included, the end is excluded, a missing one
\* is unbounded
Unbounded == [kind |-> "Unbounded", key |-> <<>>]
Included(x) == [kind |-> "Included", key |-> x]
Excluded(x) == [kind |-> "Excluded", key |-> x]
range_bounds(start, end) ==
    [start_bound |-> IF start = None THEN Unbounded ELSE Included(start[1]),
     end_bound |-> IF end = None THEN Unbounded ELSE Excluded(end[1])]

\* a range whose end is taken in
in_bounds_end_inclusive(bounds, k) ==
    /\ bounds.start_bound.kind = "Unbounded" \/ ~LexLess(k, bounds.start_bound.key)
    /\ bounds.end_bound.kind = "Unbounded" \/ ~LexLess(bounds.end_bound.key, k)

in_bounds(bounds, k) ==
    /\ bounds.start_bound.kind = "Unbounded" \/ ~LexLess(k, bounds.start_bound.key)
    /\ bounds.end_bound.kind = "Unbounded" \/ LexLess(k, bounds.end_bound.key)

\* the entries of a BTreeMap with their keys in S, in key order
RECURSIVE ascending(_, _)
ascending(data, S) ==
    IF S = {} THEN <<>>
    ELSE LET m == CHOOSE k \in S : \A j \in S : j = k \/ LexLess(k, j)
         IN <<(<<m, data[m]>>)>> \o ascending(data, S \ {m})

BTreeMap_range(data, bounds) ==
    ascending(data, {k \in DOMAIN data : in_bounds(bounds, k)})

rev(s) == [i \in 1..Len(s) |-> s[Len(s) + 1 - i]]

\* "(Bound::Included(start), Bound::Excluded(end)) if start > end"
start_after_end(bounds) ==
    /\ bounds.start_bound.kind = "Included"
    /\ bounds.end_bound.kind = "Excluded"
    /\ LexLess(bounds.end_bound.key, bounds.start_bound.key)

Iter(values) == [data |-> values, position |-> 0]
new_id(st) == Cardinality(DOMAIN st.iterators) + 1

collected(data, bounds, order) ==
    IF order = "Ascending" THEN BTreeMap_range(data, bounds)
    ELSE rev(BTreeMap_range(data, bounds))

\* the values a scan snapshots
scan_values(data, bounds, order) ==
    IF start_after_end(bounds) THEN <<>> ELSE collected(data, bounds, order)

scanned(st, values) ==
    [st |-> [st EXCEPT !.iterators = Insert(@, new_id(st), Iter(values))],
     res |-> Ok(new_id(st)),
     gas |-> [cost |-> 0, externally_used |-> GAS_COST_RANGE]]

\* a scan that hands an inverted range to BTreeMap::range, which panics on it
scan_unguarded(st, start, end, order) ==
    IF start_after_end(range_bounds(start, end))
    THEN [st |-> st, res |-> Err("panic"),
          gas |-> [cost |-> 0, externally_used |-> 0]]
    ELSE scanned(st, collected(st.data, range_bounds(start, end), order))

scan(st, start, end, order) ==
    scanned(st, scan_values(st.data, range_bounds(start, end), order))

iterator_does_not_exist(iterator_id) == <<"iterator_does_not_exist", iterator_id>>
\* a cost that counts the key of the item alone
item_cost_of_key(item) == Len(item[1])
item_cost(item) == Len(item[1]) + Len(item[2])

\* the iterator has an item left: it is returned and the position advances
next_item(st, iterator_id, iterator) ==
    [st |-> [st EXCEPT !.iterators[iterator_id].position = @ + 1],
     res |-> Ok(Some(iterator.data[iterator.position + 1])),
     gas |-> [cost |-> item_cost(iterator.data[iterator.position + 1]),
              externally_used |-> 0]]

last_iteration(st) ==
    [st |-> st, res |-> Ok(None),
     gas |-> [cost |-> 0, externally_used |-> GAS_COST_LAST_ITERATION]]

not_an_iterator(st, iterator_id) ==
    [st |-> st, res |-> Err(iterator_does_not_exist(iterator_id)),
     gas |-> [cost |-> 0, externally_used |-> 0]]

\* a next that starts the iterator over when it has run out
next_restarting(st, iterator_id) ==
    IF iterator_id \notin DOMAIN st.iterators THEN not_an_iterator(st, iterator_id)
    ELSE IF Len(st.iterators[iterator_id].data) > st.iterators[iterator_id].position
    THEN next_item(st, iterator_id, st.iterators[iterator_id])
    ELSE last_iteration([st EXCEPT !.iterators[iterator_id].position = 0])

\* a next that takes an unknown id for an iterator that has run out
next_defaulting(st, iterator_id) ==
    IF iterator_id \notin DOMAIN st.iterators THEN last_iteration(st)
    ELSE IF Len(st.iterators[iterator_id].data) > st.iterators[iterator_id].position
    THEN next_item(st, iterator_id, st.iterators[iterator_id])
    ELSE last_iteration(st)

\* a next that moves the cursor of every iterator of the store
next_advancing_all(st, iterator_id) ==
    IF iterator_id \notin DOMAIN st.iterators THEN not_an_iterator(st, iterator_id)
    ELSE IF Len(st.iterators[iterator_id].data) > st.iterators[iterator_id].position
    THEN [st |-> [st EXCEPT !.iterators =
                     [i \in DOMAIN st.iterators |->
                        [st.iterators[i] EXCEPT !.position = @ + 1]]],
          res |-> next_item(st, iterator_id, st.iterators[iterator_id]).res,
          gas |-> next_item(st, iterator_id, st.iterators[iterator_id]).gas]
    ELSE last_iteration(st)

next(st, iterator_id) ==
    IF iterator_id \notin DOMAIN st.iterators THEN not_an_iterator(st, iterator_id)
    ELSE IF Len(st.iterators[iterator_id].data) > st.iterators[iterator_id].position
    THEN next_item(st, iterator_id, st.iterators[iterator_id])
    ELSE last_iteration(st)

\* a copy that leaves the iterators behind
clone_without_iterators(st) == [data |-> st.data, iterators |-> <<>>]

\* #[derive(Clone)]: the data and the iterators are both copied
clone(st) == [data |-> st.data, iterators |-> st.iterators]

(***************************************************************************)
(* The inputs the model draws from.                                        *)
(***************************************************************************)
\* the contracts whose wasm files the watcher was given (load_artifacts)
Addrs == {"contract_a", "contract_b"}
wasm_file(addr) == <<addr, ".wasm">>

\* ACCOUNTS after prepare_command_line: the default sender and one -b balance,
\* sorted by sender address
ACCOUNTS ==
    << [sender |-> "alice", funds |-> <<[denom |-> DENOM, amount |-> "5"]>>],
       [sender |-> DEFAULT_SENDER_ADDR,
        funds |-> <<[denom |-> DENOM, amount |-> DEFAULT_SENDER_BALANCE]>>] >>

\* the account argument of call_engine: absent, configured, not configured
NoAccount == None
AccountArgs == {NoAccount, Some(""), Some("alice"), Some("nobody")}

\* the one key and value the modelled contracts write
KeyK == <<1>>
ValV == <<7>>
NoWrite == <<>>
Writes == {NoWrite, <<"set", KeyK, ValV>>, <<"remove", KeyK>>}

\* CosmosMsg: the variant the dispatcher resolves, and one it does not
WasmExecute(contract_addr, msg, send) ==
    [type |-> "wasm_execute", contract_addr |-> contract_addr, msg |-> msg, send |-> send]
BankSend ==
    [type |-> "bank_send", to_address |-> "alice",
     amount |-> <<[denom |-> DENOM, amount |-> "1"]>>]
MsgFunds == <<[denom |-> DENOM, amount |-> "7"]>>

(***************************************************************************)
(* The execution backend is external: a payload is modelled by what the    *)
(* contract does when it receives it (its writes, its outcome, the         *)
(* messages of its response).                                              *)
(***************************************************************************)
Payload(outcome, write, messages) ==
    [outcome |-> outcome, write |-> write, messages |-> messages]
OwnAttributes == <<[key |-> "action", value |-> "run"]>>

\* payloads carried by outbound messages
SubOk == Payload("ok", <<"set", KeyK, ValV>>, <<>>)
SubContractErr == Payload("contract_err", NoWrite, <<>>)
SubVmErr == Payload("vm_err", NoWrite, <<>>)
SubForward == Payload("ok", NoWrite, <<WasmExecute("contract_a", SubOk, <<>>)>>)

Msgs ==
    { BankSend,
      WasmExecute("contract_a", SubOk, MsgFunds),
      WasmExecute("contract_b", SubOk, MsgFunds),
      WasmExecute("contract_b", SubContractErr, MsgFunds),
      WasmExecute("contract_b", SubVmErr, <<>>),
      WasmExecute("contract_b", SubForward, MsgFunds) }

SeqsUpTo(S, n) == UNION {[1..k -> S] : k \in 0..n}
MsgLists == SeqsUpTo(Msgs, MaxMsgs)

\* payloads of instantiate and execute calls made by a front end
CallPayloads ==
    {Payload("ok", w, <<>>) : w \in Writes}
    \cup {Payload("ok", NoWrite, ms) : ms \in MsgLists \ {<<>>}}
    \cup {Payload(o, w, <<>>) : o \in {"contract_err", "vm_err"},
                               w \in {NoWrite, <<"set", KeyK, ValV>>}}

\* payloads of query calls: the outcome and the bytes returned
QueryPayloads ==
    { [outcome |-> "ok", data |-> <<104, 105>>],
      [outcome |-> "ok", data |-> <<>>],
      [outcome |-> "ok", data |-> <<255>>],
      [outcome |-> "contract_err", data |-> <<>>],
      [outcome |-> "vm_err", data |-> <<>>] }

(***************************************************************************)
(* engine.rs: ContractInstance.                                            *)
(***************************************************************************)
\* the strings the entry points return; format! is modelled by its pieces
InitSucceeded == <<"{\"message\":\"init succeeded\"}">>
HandleSucceeded == <<"{\"message\":\"handle succeeded\"}">>
ErrorJson(err) == <<"{\"error\":\"", err, "\"}">>
NoSuchContractText(addr) == <<"No such contract: ", addr>>

\* a make_instance that names the contract after its file
make_instance_by_file(storage, file, contract_addr, height) ==
    [wasm_file |-> file,
     storage |-> storage,
     env |-> [height |-> height, time |-> BLOCK_TIME, chain_id |-> CHAIN_ID,
              address |-> "contract"]]

\* make_instance: the Environment reads BLOCK_HEIGHT when the instance is built
make_instance(storage, file, contract_addr, height) ==
    [wasm_file |-> file,
     storage |-> storage,
     env |-> [height |-> height, time |-> BLOCK_TIME, chain_id |-> CHAIN_ID,
              address |-> contract_addr]]

\* new_instance: the storage handed over is cloned into the new backend; reading,
\* compiling or instantiating the module can fail
new_instance(file, contract_addr, storage, height, outcome) ==
    IF outcome = "ok"
    THEN [ok |-> TRUE, engine |-> make_instance(storage, file, contract_addr, height)]
    ELSE [ok |-> FALSE, engine |-> outcome]

\* the backend running a state-changing entry point: the writes the contract
\* makes reach the instance's storage whatever it returns
ApplyWrite(storage, w) ==
    IF w = NoWrite THEN storage
    ELSE IF w[1] = "set" THEN set(storage, w[2], w[3]).st
    ELSE remove(storage, w[2]).st

call_backend(storage, param) ==
    [storage |-> ApplyWrite(storage, param.write),
     tag |-> param.outcome,
     attributes |-> IF param.outcome = "ok" THEN OwnAttributes ELSE <<>>,
     messages |-> IF param.outcome = "ok" THEN param.messages ELSE <<>>,
     err |-> IF param.outcome = "contract_err" THEN "contract error" ELSE "vm error"]

\* the running state a call works on: the Registry, the height counter, the
\* executes made by the dispatcher (log) and the attributes printed (out)
World(engines, height) ==
    [engines |-> engines, height |-> height, log |-> <<>>, out |-> <<>>, seen |-> <<>>]

\* "BLOCK_HEIGHT += 1; self.env.block.height = BLOCK_HEIGHT"
bump_height_own(W, addr) ==
    [W EXCEPT !.height = @ + 1,
              !.engines[addr].env.height = @ + 1]

\* an increment that stamps the block with the time of the call
bump_height_with_time(W, addr) ==
    [W EXCEPT !.height = @ + 1,
              !.engines[addr].env.height = W.height + 1,
              !.engines[addr].env.time = "now"]

bump_height(W, addr) ==
    [W EXCEPT !.height = @ + 1,
              !.engines[addr].env.height = W.height + 1]

\* the MessageInfo of a dispatched execute: the emitting contract, the message's funds
dispatch_info_target(sender_addr, msg) ==
    [sender |-> msg.contract_addr, funds |-> msg.send]

dispatch_info(sender_addr, msg) ==
    [sender |-> sender_addr, funds |-> msg.send]

\* one storage behind every entry of the Registry
with_storage_shared(W, addr, storage) ==
    [W EXCEPT !.engines = [a \in DOMAIN @ |-> [@[a] EXCEPT !.storage = storage]]]

\* the instance's storage after the backend ran
with_storage(W, addr, storage) == [W EXCEPT !.engines[addr].storage = storage]

\* what an entry point returns, with what the call left behind
Returned(W, res, ok, attributes) ==
    [W |-> W, res |-> res, ok |-> ok, attributes |-> attributes]

\* the dispatcher's attribute for an execute it made, and the record of that execute
executed(r, msg, info, depth) ==
    [W |-> [r.W EXCEPT !.log = Append(@, [depth |-> depth,
                                          contract_addr |-> msg.contract_addr,
                                          info |-> info, param |-> msg.msg,
                                          result |-> r.res])],
     attributes |-> <<[key |-> msg.contract_addr, value |-> r.res]>>]

not_found(W, msg) ==
    [W |-> W,
     attributes |-> <<[key |-> msg.contract_addr,
                       value |-> NoSuchContractText(msg.contract_addr)]>>]

\* attributes.push: the attributes of the messages handled so far come first
pushed(attributes, rest) ==
    [W |-> rest.W, attributes |-> attributes \o rest.attributes]

\* a success arm that fails the call when a dispatched sub-call failed
succeeded_propagating(d, addr, own_attributes, success) ==
    IF \E i \in DOMAIN d.attributes : d.attributes[i].value # HandleSucceeded
    THEN Returned(d.W, ErrorJson("sub-call failed"), FALSE, d.attributes)
    ELSE Returned(bump_height([d.W EXCEPT !.out = @ \o d.attributes \o own_attributes],
                              addr),
                  success, TRUE, d.attributes)

\* a success arm that prints the contract's own attributes before the dispatcher's
succeeded_own_first(d, addr, own_attributes, success) ==
    Returned(bump_height([d.W EXCEPT !.out = @ \o own_attributes \o d.attributes], addr),
             success, TRUE, d.attributes)

\* the success arm of instantiate_raw and execute_raw, the dispatcher having run:
\* its attributes are printed, then the contract's own, then the height advances
succeeded(d, addr, own_attributes, success) ==
    Returned(bump_height([d.W EXCEPT !.out = @ \o d.attributes \o own_attributes], addr),
             success, TRUE, d.attributes)

RECURSIVE execute_contract_response(_, _, _, _)
RECURSIVE dispatch_message(_, _, _, _)

\* a backend that is handed the Environment with the height of the block the
\* call will produce
backend_ran_ahead(W, addr, b) ==
    [with_storage(W, addr, b.storage) EXCEPT
        !.seen = Append(@, [contract_addr |-> addr,
                            env |-> [W.engines[addr].env EXCEPT !.height = W.height + 1]])]

\* call_instantiate / call_execute(&mut self.instance, &self.env, info, param):
\* the backend has run on the instance's storage and has seen the instance's
\* Environment
backend_ran(W, addr, b) ==
    [with_storage(W, addr, b.storage) EXCEPT
        !.seen = Append(@, [contract_addr |-> addr, env |-> W.engines[addr].env])]

\* a "match result" whose error arms advance the height as the success arm does
match_result_counting(W, addr, b, depth, success) ==
    IF b.tag = "ok"
    THEN succeeded(execute_contract_response(with_storage(W, addr, b.storage),
                                             W.engines[addr].env.address,
                                             b.messages, depth + 1),
                   addr, b.attributes, success)
    ELSE Returned(bump_height(with_storage(W, addr, b.storage), addr),
                  ErrorJson(b.err), FALSE, <<>>)

\* "match result" of instantiate_raw and execute_raw: b is what the backend returned
match_result(W, addr, b, depth, success) ==
    IF b.tag = "ok"
    THEN succeeded(execute_contract_response(backend_ran(W, addr, b),
                                             W.engines[addr].env.address,
                                             b.messages, depth + 1),
                   addr, b.attributes, success)
    ELSE Returned(backend_ran(W, addr, b), ErrorJson(b.err), FALSE, <<>>)

\* engine.rs execute_raw: the backend runs, the dispatcher handles the messages
\* of a successful response, then the height advances
execute_raw(W, addr, param, info, depth) ==
    match_result(W, addr, call_backend(W.engines[addr].storage, param), depth,
                 HandleSucceeded)

\* engine.rs instantiate_raw
instantiate_raw(W, addr, param, info) ==
    match_result(W, addr, call_backend(W.engines[addr].storage, param), 0,
                 InitSucceeded)

\* the remaining iterations of the loop, after the attribute of one message
dispatch_rest(first, sender_addr, messages, depth) ==
    pushed(first.attributes,
           execute_contract_response(first.W, sender_addr, messages, depth))

\* a loop body that gives up the remaining messages at a missing target
dispatch_message_abort(W, sender_addr, messages, depth) ==
    IF Head(messages).type # "wasm_execute"
    THEN execute_contract_response(W, sender_addr, Tail(messages), depth)
    ELSE IF Head(messages).contract_addr \notin DOMAIN W.engines
    THEN not_found(W, Head(messages))
    ELSE dispatch_rest(
             executed(execute_raw(W, Head(messages).contract_addr, Head(messages).msg,
                                  dispatch_info(sender_addr, Head(messages)), depth),
                      Head(messages), dispatch_info(sender_addr, Head(messages)), depth),
             sender_addr, Tail(messages), depth)

\* the body of the for loop of execute_contract_response, for the first of
\* messages, followed by the remaining iterations
dispatch_message(W, sender_addr, messages, depth) ==
    IF Head(messages).type # "wasm_execute"
    THEN execute_contract_response(W, sender_addr, Tail(messages), depth)
    ELSE IF Head(messages).contract_addr \notin DOMAIN W.engines
    THEN pushed(not_found(W, Head(messages)).attributes,
                execute_contract_response(W, sender_addr, Tail(messages), depth))
    ELSE dispatch_rest(
             executed(execute_raw(W, Head(messages).contract_addr, Head(messages).msg,
                                  dispatch_info(sender_addr, Head(messages)), depth),
                      Head(messages), dispatch_info(sender_addr, Head(messages)), depth),
             sender_addr, Tail(messages), depth)

\* main.rs execute_contract_response: one attribute per execute message, keyed by
\* the target address; other messages are skipped
execute_contract_response(W, sender_addr, messages, depth) ==
    IF messages = <<>> THEN [W |-> W, attributes |-> <<>>]
    ELSE dispatch_message(W, sender_addr, messages, depth)

\* dump_result: the bytes as text, or in hex when they are no UTF-8 text or empty
IsUtf8(bytes) == \A i \in 1..Len(bytes) : bytes[i] < 128
\* a dump_result that never falls back to hex
dump_result_text(value) == <<"text", value>>
dump_result(value) ==
    IF IsUtf8(value) /\ value # <<>> THEN <<"text", value>> ELSE <<"hex", value>>

\* the backend running the query entry point: storage is read-only there
call_query(storage, param) ==
    IF param.outcome = "vm_err" THEN [tag |-> "VmErr", err |-> "vm error"]
    ELSE [tag |-> "Ok",
          response |-> IF param.outcome = "ok"
                       THEN [tag |-> "Ok", data |-> param.data]
                       ELSE [tag |-> "Err", err |-> "contract error"]]

\* a query that advances the height as the state-changing calls do
query_raw_bumping(W, addr, param) ==
    LET result == call_query(W.engines[addr].storage, param)
    IN [W |-> bump_height(W, addr),
        res |-> IF result.tag = "Ok"
                THEN IF result.response.tag = "Ok"
                     THEN dump_result(result.response.data)
                     ELSE ErrorJson(result.response.err)
                ELSE ErrorJson(result.err),
        ok |-> result.tag = "Ok" /\ result.response.tag = "Ok",
        attributes |-> <<>>]

\* engine.rs query_raw: the instance and the counter are only read
query_raw(W, addr, param) ==
    LET result == call_query(W.engines[addr].storage, param)
    IN [W |-> W,
        res |-> IF result.tag = "Ok"
                THEN IF result.response.tag = "Ok"
                     THEN dump_result(result.response.data)
                     ELSE ErrorJson(result.response.err)
                ELSE ErrorJson(result.err),
        ok |-> result.tag = "Ok" /\ result.response.tag = "Ok",
        attributes |-> <<>>]

\* a call that runs any kind it does not know as an execute
call_defaulting(W, addr, func_type, param, info) ==
    CASE func_type = "instantiate" -> instantiate_raw(W, addr, param, info)
      [] func_type = "query" -> query_raw(W, addr, param)
      [] OTHER -> execute_raw(W, addr, param, info, 0)

\* engine.rs call
call(W, addr, func_type, param, info) ==
    CASE func_type = "instantiate" -> instantiate_raw(W, addr, param, info)
      [] func_type = "execute" -> execute_raw(W, addr, param, info, 0)
      [] func_type = "query" -> query_raw(W, addr, param)
      [] OTHER -> [W |-> W, res |-> ErrorJson(<<"wrong dispatcher call ", func_type>>),
                   ok |-> FALSE, attributes |-> <<>>]

(***************************************************************************)
(* main.rs: the front ends' entry point, the query router, hot reload.     *)
(***************************************************************************)

\* the msg argument of call_engine: base64 text of a payload, or text that is no
\* base64, or base64 of bytes that are no UTF-8
Encoded(param) == [enc |-> "ok", param |-> param]
BadBase64 == [enc |-> "bad_base64", param |-> None]
BadUtf8 == [enc |-> "bad_utf8", param |-> None]

\* Ok(engine.call(...)): the string the instance returned
engine_called(r) == [result |-> Ok(r.res), inner |-> r, called |-> TRUE]

\* a lookup that takes the first of the accounts when none is named
find_account_first(accounts, account) ==
    LET given == IF account = None THEN "" ELSE account[1]
        found == {i \in 1..Len(accounts) : accounts[i].sender = given}
    IN IF given = ""
       THEN Ok(accounts[1])
       ELSE IF found = {}
       THEN Err(<<"No account found for ", given>>)
       ELSE Ok(accounts[CHOOSE i \in found : \A j \in found : i <= j])

\* main.rs call_engine, its first lines: the address defaults to
\* DEFAULT_SENDER_ADDR and the first entry of ACCOUNTS with that sender is taken
find_account(accounts, account) ==
    LET given == IF account = None THEN "" ELSE account[1]
        addr == IF given = "" THEN DEFAULT_SENDER_ADDR ELSE given
        found == {i \in 1..Len(accounts) : accounts[i].sender = addr}
    IN IF found = {}
       THEN Err(<<"No account found for ", addr>>)
       ELSE Ok(accounts[CHOOSE i \in found : \A j \in found : i <= j])

\* a call_engine that falls back to the default account when the named one is
\* not configured
call_engine_fallback(W, contract_addr, func_type, msg, account) ==
    LET named == find_account(ACCOUNTS, account)
        info == IF named.ok THEN named ELSE find_account(ACCOUNTS, None)
        none == [W |-> W, res |-> <<>>, ok |-> FALSE, attributes |-> <<>>]
    IN IF contract_addr \notin DOMAIN W.engines
       THEN [result |-> Err(NoSuchContractText(contract_addr)), inner |-> none, called |-> FALSE]
       ELSE IF msg.enc = "bad_base64"
       THEN [result |-> Err(<<"Invalid base64">>), inner |-> none, called |-> FALSE]
       ELSE IF msg.enc = "bad_utf8"
       THEN [result |-> Err(<<"invalid utf-8 sequence">>), inner |-> none, called |-> FALSE]
       ELSE engine_called(call(W, contract_addr, func_type, msg.param, info.val))

\* main.rs call_engine
call_engine(W, contract_addr, func_type, msg, account) ==
    LET info == find_account(ACCOUNTS, account)
        none == [W |-> W, res |-> <<>>, ok |-> FALSE, attributes |-> <<>>]
    IN IF ~info.ok
       THEN [result |-> info, inner |-> none, called |-> FALSE]
       ELSE IF contract_addr \notin DOMAIN W.engines
       THEN [result |-> Err(NoSuchContractText(contract_addr)), inner |-> none, called |-> FALSE]
       ELSE IF msg.enc = "bad_base64"
       THEN [result |-> Err(<<"Invalid base64">>), inner |-> none, called |-> FALSE]
       ELSE IF msg.enc = "bad_utf8"
       THEN [result |-> Err(<<"invalid utf-8 sequence">>), inner |-> none, called |-> FALSE]
       ELSE engine_called(call(W, contract_addr, func_type, msg.param, info.val))

\* main.rs query_wasm: the handler of WasmQuery requests
WasmSmart(contract_addr, msg) == [type |-> "smart", contract_addr |-> contract_addr, msg |-> msg]
WasmRaw(contract_addr, key) == [type |-> "raw", contract_addr |-> contract_addr, key |-> key]
SystemOk(v) == [sys |-> "Ok", val |-> v]
SystemErr(e) == [sys |-> "Err", val |-> e]

\* a router that answers every smart query as if the target were missing
query_wasm_unrouted(engines, request) ==
    IF request.type = "smart"
    THEN SystemErr([kind |-> "NoSuchContract", addr |-> request.contract_addr])
    ELSE SystemErr([kind |-> "UnsupportedRequest", error |-> "Not implemented"])

query_wasm(engines, request) ==
    IF request.type = "smart"
    THEN IF request.contract_addr \notin DOMAIN engines
         THEN SystemErr([kind |-> "NoSuchContract", addr |-> request.contract_addr])
         ELSE LET result == call_query(engines[request.contract_addr].storage, request.msg)
              IN IF result.tag = "Ok"
                 THEN SystemOk(result.response)
                 ELSE SystemErr([kind |-> "InvalidResponse", error |-> result.err,
                                 response |-> <<>>])
    ELSE SystemErr([kind |-> "UnsupportedRequest", error |-> "Not implemented"])

\* an insert_engine that registers an instance on an empty store when the module
\* could not be built
insert_engine_always(engines, file, contract_addr, storage, height, outcome) ==
    LET r == new_instance(file, contract_addr, storage, height, outcome)
    IN Insert(engines, contract_addr,
              IF r.ok THEN r.engine
              ELSE make_instance(MockStorage_default, file, contract_addr, height))

\* main.rs insert_engine: the Registry changes only when the instance was built
insert_engine(engines, file, contract_addr, storage, height, outcome) ==
    LET r == new_instance(file, contract_addr, storage, height, outcome)
    IN IF r.ok THEN Insert(engines, contract_addr, r.engine) ELSE engines

\* a reload that starts the new instance on a fresh storage
load_or_replace_fresh(engines, contract_addr, height, outcome) ==
    insert_engine(engines, wasm_file(contract_addr), contract_addr,
                  MockStorage_default, height, outcome)

\* main.rs watch_and_update, for one changed file: the storage given to the new
\* instance is the installed instance's, or a fresh one
load_or_replace(engines, contract_addr, height, outcome) ==
    IF contract_addr \in DOMAIN engines
    THEN insert_engine(engines, wasm_file(contract_addr), contract_addr,
                       engines[contract_addr].storage, height, outcome)
    ELSE insert_engine(engines, wasm_file(contract_addr), contract_addr,
                       MockStorage_default, height, outcome)

LoadOutcomes == {"ok", "file_error", "compile_error", "instance_error"}

(***************************************************************************)
(* The sequential specification: one operation at a time.                  *)
(***************************************************************************)
NoLast ==
    [op |-> "none", func_type |-> "", contract_addr |-> "", account |-> None,
     msg |-> BadBase64, request |-> WasmRaw("", <<>>), result |-> Err(<<>>),
     called |-> FALSE, ok |-> FALSE, attributes |-> <<>>, log |-> <<>>, out |-> <<>>,
     seen |-> <<>>, gas_used |-> 0, pre |-> [ENGINES |-> <<>>, BLOCK_HEIGHT |-> 0]]

Pre == [ENGINES |-> ENGINES, BLOCK_HEIGHT |-> BLOCK_HEIGHT]

\* the threads of the process: the REST worker, the simulation loop, the watcher
Callers == {"rest", "repl"}
Threads == Callers \cup {"watch"}
Idle ==
    [pc |-> "idle", addr |-> "", reg |-> 0, stale |-> FALSE, engine |-> <<>>,
     msgs |-> <<>>, looked |-> {}, changed |-> {}, torn |-> FALSE]

NoStoreOp == [op |-> "none", key |-> <<>>, value |-> <<>>, res |-> None, gas |-> 0]
NoIterOp == [op |-> "none", id |-> 0, res |-> Err("none"), gas |-> [cost |-> 0, externally_used |-> 0]]
NoQuery ==
    [op |-> "none", bin_request |-> <<>>, response |-> <<>>, gas_limit |-> 0,
     result |-> Err("none"), externally_used |-> 0]

\* no call in progress: no frame, no payload, no result, no return yet
NoStack == [frames |-> <<>>, param |-> None, result |-> None, returns |-> <<>>]

EngineInit ==
    /\ ENGINES = <<>>
    /\ BLOCK_HEIGHT = BLOCK_HEIGHT_INIT
    /\ last = NoLast
    /\ thr = [t \in Threads |-> Idle]

\* the state the calls and the reloads start from: the watcher thread has run
\* ENGINES.init_once(); the start of the process up to there is StartSpec's
Init ==
    /\ EngineInit
    /\ mock_storage = MockStorage_default
    /\ sop = [NoStoreOp EXCEPT !.op = "new"] @@ [prev |-> NoStoreOp, pre |-> MockStorage_default]
    /\ qry = NoQuery
    /\ scans = <<>>
    /\ iop = NoIterOp
    /\ stack = NoStack
    /\ completed = 0
    /\ lazy = "Value"

FuncTypes == {"instantiate", "execute", "query", "migrate"}
MsgArgs(func_type) ==
    IF func_type \in {"instantiate", "execute"}
    THEN {Encoded(p) : p \in CallPayloads} \cup {BadBase64, BadUtf8}
    ELSE IF func_type = "query"
    THEN {Encoded(p) : p \in QueryPayloads}
    ELSE {Encoded(Payload("ok", NoWrite, <<>>))}

\* the success strings a call produced: its own, when it was an instantiate or an
\* execute, and those the dispatcher got from the executes it made
returned_success(r, func_type) ==
    (IF r.called /\ r.inner.ok /\ func_type \in {"instantiate", "execute"} THEN 1 ELSE 0)
      + Cardinality({j \in 1..Len(r.inner.W.log) :
                       r.inner.W.log[j].result = HandleSucceeded})

\* engine.rs call, "gas_init - self.instance.get_gas_left()": the gas of the
\* instance goes to the entry points run on it between the two reads, each a
\* positive amount, counted here as one unit
gas_used(r, contract_addr, func_type) ==
    IF ~r.called THEN 0
    ELSE Cardinality({i \in DOMAIN r.inner.W.seen :
                        r.inner.W.seen[i].contract_addr = contract_addr})
           + (IF func_type = "query" THEN 1 ELSE 0)

\* the state a call leaves, r being what call_engine did; the counter is followed
\* up to MaxHeightInc increments
Called(r, contract_addr, func_type, msg, account) ==
    /\ r.inner.W.height <= BLOCK_HEIGHT_INIT + MaxHeightInc
    /\ ENGINES' = r.inner.W.engines
    /\ BLOCK_HEIGHT' = r.inner.W.height
    /\ last' = [NoLast EXCEPT !.op = "call", !.func_type = func_type,
                  !.contract_addr = contract_addr, !.account = account,
                  !.msg = msg, !.result = r.result, !.called = r.called,
                  !.ok = r.inner.ok, !.attributes = r.inner.attributes,
                  !.log = r.inner.W.log, !.out = r.inner.W.out,
                  !.seen = r.inner.W.seen,
                  !.gas_used = gas_used(r, contract_addr, func_type), !.pre = Pre]
    /\ completed' = completed + returned_success(r, func_type)
    /\ UNCHANGED <<thr, mock_storage, sop, scans, iop, qry, stack, lazy>>

\* a front end (REST route or simulation loop) makes one call
Call(contract_addr, func_type, msg, account) ==
    /\ last.op = "none"
    /\ Called(call_engine(World(ENGINES, BLOCK_HEIGHT), contract_addr, func_type,
                          msg, account),
              contract_addr, func_type, msg, account)

\* a running contract asks the router for another contract's state
SmartQuery(request) ==
    /\ last.op = "none"
    /\ last' = [NoLast EXCEPT !.op = "smart_query", !.request = request,
                  !.contract_addr = request.contract_addr,
                  !.result = query_wasm(ENGINES, request), !.pre = Pre]
    /\ UNCHANGED <<ENGINES, BLOCK_HEIGHT, thr, mock_storage, sop, scans, iop, qry, stack, completed, lazy>>

\* the watcher finds the file of contract_addr changed (or not yet loaded)
LoadOrReplace(contract_addr, outcome) ==
    /\ last.op = "none"
    /\ ENGINES' = load_or_replace(ENGINES, contract_addr, BLOCK_HEIGHT, outcome)
    /\ last' = [NoLast EXCEPT !.op = "load", !.contract_addr = contract_addr,
                  !.ok = (outcome = "ok"), !.pre = Pre]
    /\ UNCHANGED <<BLOCK_HEIGHT, thr, mock_storage, sop, scans, iop, qry, stack, completed, lazy>>

\* the operation's report has been taken: the next operation may start
Return ==
    /\ last.op # "none"
    /\ last' = NoLast
    /\ UNCHANGED <<ENGINES, BLOCK_HEIGHT, thr, mock_storage, sop, scans, iop, qry, stack, completed, lazy>>

WasmRequests ==
    {WasmSmart(a, p) : a \in Addrs, p \in QueryPayloads} \cup {WasmRaw(a, KeyK) : a \in Addrs}

Next ==
    \/ \E a \in Addrs, f \in FuncTypes, acc \in AccountArgs :
         \E m \in MsgArgs(f) : Call(a, f, m, acc)
    \/ \E rq \in WasmRequests : SmartQuery(rq)
    \/ \E a \in Addrs, o \in LoadOutcomes : LoadOrReplace(a, o)
    \/ Return

Spec == Init /\ [][Next]_vars

(***************************************************************************)
(* Properties of the sequential specification.                             *)
(***************************************************************************)
HeightOf(engines, a) == engines[a].env.height
IsExecuteMsg(m) == m.type = "wasm_execute"
IsTopLevel(e) == e.depth = 1
Succeeded(e) == e.result = HandleSucceeded

\* the call just made was an instantiate or execute that reached the instance
StateChangingCall ==
    /\ last.op = "call"
    /\ last.func_type \in {"instantiate", "execute"}
    /\ last.called
\* ... and the contract returned a response
SuccessfulCall == StateChangingCall /\ last.msg.param.outcome = "ok"
QueryJustRun ==
    \/ last.op = "call" /\ last.func_type = "query"
    \/ last.op = "smart_query"

\* the execute messages of the response of the call just made, and those among
\* them whose target was registered
ExecuteMsgs == SelectSeq(last.msg.param.messages, IsExecuteMsg)
TargetPresent(m) == m.contract_addr \in DOMAIN last.pre.ENGINES
PresentMsgs == SelectSeq(ExecuteMsgs, TargetPresent)
TopLevelLog == SelectSeq(last.log, IsTopLevel)
\* the position in TopLevelLog of the i-th execute message (its target registered)
RankOf(i) == Len(SelectSeq(SubSeq(ExecuteMsgs, 1, i), TargetPresent))

\* C1 as stated: after every successful instantiate or execute call the instance's
\* block height is exactly 1 greater than it was before the call, whatever other
\* instances did and whatever messages the response carries.
C1_HeightPlusOne ==
    SuccessfulCall =>
        HeightOf(ENGINES, last.contract_addr)
            = HeightOf(last.pre.ENGINES, last.contract_addr) + 1

\* C1 amended: after every successful instantiate or execute call the instance's
\* block height equals the global counter, which the call raised by exactly 1 plus
\* the number of successful executes it dispatched; the instance's height is exactly
\* 1 greater than before when it equalled the counter before the call and no
\* dispatched execute succeeded.
C1_HeightFollowsCounter ==
    SuccessfulCall =>
        LET a == last.contract_addr
            n == Len(SelectSeq(last.log, Succeeded))
        IN /\ last.ok
           /\ HeightOf(ENGINES, a) = BLOCK_HEIGHT
           /\ BLOCK_HEIGHT = last.pre.BLOCK_HEIGHT + 1 + n
           /\ (n = 0 /\ HeightOf(last.pre.ENGINES, a) = last.pre.BLOCK_HEIGHT)
                 => HeightOf(ENGINES, a) = HeightOf(last.pre.ENGINES, a) + 1

\* the second of two sequential successful executes on one instance, no other call
\* in between: its height is 2 above the starting value
C1_Witness ==
    /\ SuccessfulCall
    /\ last.func_type = "execute"
    /\ last.log = <<>>
    /\ HeightOf(last.pre.ENGINES, last.contract_addr) = BLOCK_HEIGHT_INIT + 1
    /\ HeightOf(ENGINES, last.contract_addr) = BLOCK_HEIGHT_INIT + 2

\* C2: a query (a query call, or a smart query routed to the target instance)
\* changes neither the block height of any instance nor the global counter,
\* whether it succeeds or fails.
C2_QueryKeepsHeights ==
    QueryJustRun =>
        /\ BLOCK_HEIGHT = last.pre.BLOCK_HEIGHT
        /\ DOMAIN ENGINES = DOMAIN last.pre.ENGINES
        /\ \A a \in DOMAIN ENGINES : HeightOf(ENGINES, a) = HeightOf(last.pre.ENGINES, a)

\* a query call answered by an instance that has executed before
C2_Witness ==
    /\ last.op = "call" /\ last.func_type = "query" /\ last.called /\ last.ok
    /\ HeightOf(ENGINES, last.contract_addr) > BLOCK_HEIGHT_INIT

\* C4: the instance a load installs holds the key/value entries the replaced
\* instance held at that moment, and none when the address had no instance.
C4_ReloadKeepsStore ==
    (last.op = "load" /\ last.ok) =>
        LET a == last.contract_addr
        IN /\ a \in DOMAIN ENGINES
           /\ ENGINES[a].storage.data =
                IF a \in DOMAIN last.pre.ENGINES
                THEN last.pre.ENGINES[a].storage.data
                ELSE <<>>

\* an instance holding an entry has been replaced
C4_Witness ==
    /\ last.op = "load" /\ last.ok
    /\ last.contract_addr \in DOMAIN last.pre.ENGINES
    /\ KeyK \in DOMAIN last.pre.ENGINES[last.contract_addr].storage.data
    /\ KeyK \in DOMAIN ENGINES[last.contract_addr].storage.data

\* C5: an execute message whose target is missing from the Registry gives an
\* attribute keyed by the target that notes the failure, and the remaining
\* messages are still processed: every execute message has its attribute, and
\* every one whose target is registered was executed.
C5_MissingTargetContinues ==
    SuccessfulCall =>
        /\ Len(last.attributes) = Len(ExecuteMsgs)
        /\ Len(TopLevelLog) = Len(PresentMsgs)
        /\ \A i \in 1..Len(ExecuteMsgs) :
             /\ last.attributes[i].key = ExecuteMsgs[i].contract_addr
             /\ ~TargetPresent(ExecuteMsgs[i]) =>
                  last.attributes[i].value
                      = NoSuchContractText(ExecuteMsgs[i].contract_addr)

\* a missing target first, then a message whose target was executed
C5_Witness ==
    /\ SuccessfulCall
    /\ Len(ExecuteMsgs) = 2
    /\ ~TargetPresent(ExecuteMsgs[1])
    /\ TargetPresent(ExecuteMsgs[2])
    /\ Len(TopLevelLog) = 1
    /\ last.attributes[2].value = HandleSucceeded

\* C6: every execute message whose target is registered is executed exactly once,
\* with sender the contract that emitted it and the funds it carries, and gives one
\* attribute keyed by the target whose value is the string that execute returned;
\* attributes are in message order.
C6_DispatchInvokesTarget ==
    SuccessfulCall =>
        /\ Len(TopLevelLog) = Len(PresentMsgs)
        /\ Len(last.attributes) = Len(ExecuteMsgs)
        /\ \A k \in 1..Len(PresentMsgs) :
             /\ TopLevelLog[k].contract_addr = PresentMsgs[k].contract_addr
             /\ TopLevelLog[k].param = PresentMsgs[k].msg
             /\ TopLevelLog[k].info.sender = last.contract_addr
             /\ TopLevelLog[k].info.funds = PresentMsgs[k].send
        /\ \A i \in 1..Len(ExecuteMsgs) :
             TargetPresent(ExecuteMsgs[i]) =>
               last.attributes[i] = [key |-> ExecuteMsgs[i].contract_addr,
                                     value |-> TopLevelLog[RankOf(i)].result]
        \* an execute dispatched from a sub-call has that sub-call's contract as sender
        /\ \A j \in 1..Len(last.log) :
             last.log[j].depth = 2 =>
               \E k \in (j + 1)..Len(last.log) :
                 /\ last.log[k].depth = 1
                 /\ \A x \in (j + 1)..(k - 1) : last.log[x].depth # 1
                 /\ last.log[j].info.sender = last.log[k].contract_addr

\* two messages to registered targets, the second executed by a contract that is
\* neither the account that made the call nor the target
C6_Witness ==
    /\ SuccessfulCall
    /\ Len(PresentMsgs) = 2
    /\ Len(TopLevelLog) = 2
    /\ TopLevelLog[2].contract_addr # last.contract_addr
    /\ TopLevelLog[2].info.sender = last.contract_addr
    /\ TopLevelLog[2].info.funds = MsgFunds
    /\ \E j \in 1..Len(last.log) : last.log[j].depth = 2

\* C7: a failure inside a dispatched sub-call (target missing, contract error,
\* backend error) does not abort the calling call: it returns its success string
\* and advances the caller's height, and the failure is the value of the attribute
\* recorded for that message.
C7_SubCallFailureContained ==
    SuccessfulCall =>
        LET a == last.contract_addr
        IN /\ last.result = Ok(IF last.func_type = "execute"
                               THEN HandleSucceeded ELSE InitSucceeded)
           /\ BLOCK_HEIGHT > last.pre.BLOCK_HEIGHT
           /\ HeightOf(ENGINES, a) > HeightOf(last.pre.ENGINES, a)
           /\ Len(last.attributes) = Len(ExecuteMsgs)
           /\ \A i \in 1..Len(ExecuteMsgs) :
                LET m == ExecuteMsgs[i]
                IN /\ ~TargetPresent(m) =>
                        last.attributes[i].value = NoSuchContractText(m.contract_addr)
                   /\ (TargetPresent(m) /\ m.msg.outcome = "contract_err") =>
                        last.attributes[i].value = ErrorJson("contract error")
                   /\ (TargetPresent(m) /\ m.msg.outcome = "vm_err") =>
                        last.attributes[i].value = ErrorJson("vm error")

\* an execute whose two dispatched sub-calls failed, one in the contract and one
\* in the backend
C7_Witness ==
    /\ SuccessfulCall
    /\ last.func_type = "execute"
    /\ Len(last.attributes) = 2
    /\ last.attributes[1].value = ErrorJson("contract error")
    /\ last.attributes[2].value = ErrorJson("vm error")
    /\ last.result = Ok(HandleSucceeded)

\* the addresses whose execute the dispatcher invoked during the call just made
Dispatched == {last.log[i].contract_addr : i \in 1..Len(last.log)}
StoreOf(engines, a) == engines[a].storage

StoreKeys == {<<>>, <<1>>, <<1, 2>>}
StoreValues == {<<>>, <<7>>}

StoreOp(op, key, value, res, gas) ==
    [op |-> op, key |-> key, value |-> value, res |-> res, gas |-> gas]
Stored(op) ==
    op @@ [prev |-> StoreOp(sop.op, sop.key, sop.value, sop.res, sop.gas),
           pre |-> mock_storage]

StoreGet(key) ==
    /\ sop' = Stored(StoreOp("get", key, <<>>, get(mock_storage, key).res,
                             get(mock_storage, key).gas))
    /\ UNCHANGED <<mock_storage, ENGINES, BLOCK_HEIGHT, last, thr, qry, scans, iop, stack, completed, lazy>>

StoreSet(key, value) ==
    /\ mock_storage' = set(mock_storage, key, value).st
    /\ sop' = Stored(StoreOp("set", key, value, None, set(mock_storage, key, value).gas))
    /\ UNCHANGED <<ENGINES, BLOCK_HEIGHT, last, thr, qry, scans, iop, stack, completed, lazy>>

StoreRemove(key) ==
    /\ mock_storage' = remove(mock_storage, key).st
    /\ sop' = Stored(StoreOp("remove", key, <<>>, None, remove(mock_storage, key).gas))
    /\ UNCHANGED <<ENGINES, BLOCK_HEIGHT, last, thr, qry, scans, iop, stack, completed, lazy>>

StoreNext ==
    \/ \E k \in StoreKeys : StoreGet(k)
    \/ \E k \in StoreKeys, v \in StoreValues : StoreSet(k, v)
    \/ \E k \in StoreKeys : StoreRemove(k)

StoreSpec == Init /\ [][StoreNext]_vars

\* what get answers for every key other than k
Others(st, k) == [x \in StoreKeys \ {k} |-> get(st, x).res]

\* C10: get after set(k, v) returns exactly v; get after remove(k) returns
\* nothing, also when k was set just before; set and remove leave what get
\* returns for every other key as it was.
C10_StoreAlgebra ==
    /\ sop.op = "set" =>
         /\ get(mock_storage, sop.key).res = Some(sop.value)
         /\ Others(mock_storage, sop.key) = Others(sop.pre, sop.key)
    /\ sop.op = "remove" =>
         /\ get(mock_storage, sop.key).res = None
         /\ Others(mock_storage, sop.key) = Others(sop.pre, sop.key)
    /\ (sop.op = "get" /\ sop.prev.op = "set" /\ sop.prev.key = sop.key) =>
         sop.res = Some(sop.prev.value)
    /\ (sop.op = "get" /\ sop.prev.op = "remove" /\ sop.prev.key = sop.key) =>
         sop.res = None

\* k was set and then removed while another key, of which k is a prefix, is stored
C10_Witness ==
    /\ sop.op = "remove" /\ sop.key = <<1>>
    /\ sop.prev.op = "set" /\ sop.prev.key = <<1>> /\ sop.prev.value = <<7>>
    /\ <<1, 2>> \in DOMAIN mock_storage.data
    /\ <<1>> \notin DOMAIN mock_storage.data

(***************************************************************************)
(* MockQuerier::query_raw on its own (mock.rs): the gas a query is charged.*)
(***************************************************************************)
MaxReqLen == 2
MaxRespLen == 3

GAS_COST_QUERY_FLAT == 100000
GAS_COST_QUERY_REQUEST_MULTIPLIER == 0
GAS_COST_QUERY_RESPONSE_MULTIPLIER == 100

\* the raw requests, and what raw_query answers: data or an error text of a
\* contract, each of a few lengths
BinRequests == SeqsUpTo({123}, MaxReqLen)
QuerierResponses ==
    {SystemOk([ok |-> TRUE, val |-> d]) : d \in SeqsUpTo({104}, MaxRespLen)}
      \cup {SystemOk([ok |-> FALSE, val |-> e]) : e \in SeqsUpTo({101}, MaxRespLen)}

\* the length of to_binary(&response): the JSON text {"ok":{"ok":"<base64>"}}
\* or {"ok":{"error":"<text>"}}
to_binary_len(response) ==
    IF response.val.ok
    THEN 16 + 4 * ((Len(response.val.val) + 2) \div 3)
    ELSE 19 + Len(response.val.val)

gas_cost(bin_request, response) ==
    GAS_COST_QUERY_FLAT
      + (GAS_COST_QUERY_REQUEST_MULTIPLIER * Len(bin_request))
      + (GAS_COST_QUERY_RESPONSE_MULTIPLIER * to_binary_len(response))

\* a limit that is hit exactly when the cost equals it
MockQuerier_query_raw_at_limit(bin_request, response, gas_limit) ==
    [result |-> IF gas_cost(bin_request, response) >= gas_limit
                THEN Err("out_of_gas") ELSE Ok(response),
     externally_used |-> gas_cost(bin_request, response)]

MockQuerier_query_raw(bin_request, response, gas_limit) ==
    [result |-> IF gas_cost(bin_request, response) > gas_limit
                THEN Err("out_of_gas") ELSE Ok(response),
     externally_used |-> gas_cost(bin_request, response)]

\* the limits tried: none, and those at and next to the cost of each query
GasLimits ==
    {0} \cup {gas_cost(<<>>, r) + e : r \in QuerierResponses, e \in {-1, 0, 1}}

QueryRaw(bin_request, response, gas_limit) ==
    /\ qry' = [op |-> "query_raw", bin_request |-> bin_request, response |-> response,
               gas_limit |-> gas_limit]
              @@ MockQuerier_query_raw(bin_request, response, gas_limit)
    /\ UNCHANGED <<ENGINES, BLOCK_HEIGHT, last, thr, mock_storage, sop, scans, iop, stack, completed, lazy>>

QuerierNext ==
    \E rq \in BinRequests, r \in QuerierResponses, g \in GasLimits : QueryRaw(rq, r, g)

QuerierSpec == Init /\ [][QuerierNext]_vars

\* the cost the claim states, from the lengths the query was made with
StatedCost ==
    GAS_COST_QUERY_FLAT
      + GAS_COST_QUERY_REQUEST_MULTIPLIER * Len(qry.bin_request)
      + GAS_COST_QUERY_RESPONSE_MULTIPLIER * to_binary_len(qry.response)

\* C9: a routed query is charged flat + per-request-byte + per-response-byte
\* gas; above the remaining limit it fails with an out-of-gas error and no
\* response, otherwise it returns the response; the cost is reported both ways.
C9_QueryGas ==
    qry.op = "query_raw" =>
      /\ qry.externally_used = StatedCost
      /\ StatedCost > qry.gas_limit =>
           (~qry.result.ok /\ qry.result.val = "out_of_gas")
      /\ StatedCost <= qry.gas_limit =>
           (qry.result.ok /\ qry.result.val = qry.response)

\* a query whose cost is exactly the limit, with a request and a response of
\* some bytes
C9_Witness ==
    /\ qry.op = "query_raw"
    /\ Len(qry.bin_request) > 0 /\ Len(qry.response.val.val) > 0
    /\ qry.externally_used = qry.gas_limit
    /\ qry.result.ok

(***************************************************************************)
(* The threads.  start_server runs the REST routes on a thread of their    *)
(* own, the simulation loop runs on the main thread and watch_and_update   *)
(* on a third; ENGINES and BLOCK_HEIGHT are static mut and no lock guards  *)
(* them.  A call runs its backend, then its dispatcher message by message, *)
(* then reads BLOCK_HEIGHT, writes it back incremented, and reads it again *)
(* for the instance's env; the watcher clones the storage, builds the      *)
(* instance (reading BLOCK_HEIGHT) and then inserts it.  The watcher's     *)
(* first pass takes the files in order and the simulation loop starts when *)
(* it is over; the REST routes are served from the start.                  *)
(***************************************************************************)
\* the files given to watch_and_update, in the order of its loop
wasm_files == <<"contract_a", "contract_b">>

\* the watcher is done with one file; reg counts the files of the first pass
next_file(rec) ==
    [Idle EXCEPT !.reg = IF rec.reg < Len(wasm_files) THEN rec.reg + 1 ELSE rec.reg]
first_pass_over == thr["watch"].reg = Len(wasm_files)

\* the increments of the counter the threads are followed for
MaxThreadInc == 2

\* the message of the contracts the threads call
ThreadMsgs == {WasmExecute("contract_b", SubOk, MsgFunds)}
ThreadPayloads ==
    {p \in CallPayloads : \A i \in 1..Len(p.messages) : p.messages[i] \in ThreadMsgs}

At(t, pc) == thr[t].pc = pc
Goto(t, rec) == thr' = [thr EXCEPT ![t] = rec]

\* the thread after the backend returned b: the dispatcher has b's messages to
\* handle, and the call has looked up its own address in ENGINES; engine is the
\* store of the instance the call runs on, as its backend left it
entered(addr, b) ==
    IF b.tag = "ok"
    THEN [Idle EXCEPT !.pc = IF b.messages = <<>> THEN "read_height" ELSE "dispatch",
                      !.addr = addr, !.msgs = b.messages, !.looked = {addr},
                      !.engine = Some(b.storage)]
    ELSE Idle

\* call_engine up to the dispatcher: ENGINES.get_mut(addr), then the backend
\* runs the entry point on the instance's storage
Entered(t, addr, b) ==
    /\ BLOCK_HEIGHT + (IF b.tag = "ok" THEN 1 ELSE 0) <= BLOCK_HEIGHT_INIT + MaxThreadInc
    /\ ENGINES' = with_storage(World(ENGINES, BLOCK_HEIGHT), addr, b.storage).engines
    /\ Goto(t, entered(addr, b))
    /\ UNCHANGED <<BLOCK_HEIGHT, last, mock_storage, sop, scans, iop, qry, stack, completed, lazy>>

ThreadCall(t, addr, param) ==
    /\ At(t, "idle")
    /\ t = "repl" => first_pass_over
    /\ addr \in DOMAIN ENGINES
    /\ Entered(t, addr, call_backend(ENGINES[addr].storage, param))

\* the thread after one iteration of the dispatcher's loop: msg has been looked
\* up in ENGINES; torn records that the call had looked that address up before
\* and the watcher has inserted an instance there since
dispatched(rec, msg) ==
    [rec EXCEPT !.msgs = Tail(@),
                !.pc = IF Tail(rec.msgs) = <<>> THEN "read_height" ELSE "dispatch",
                !.looked = IF IsExecuteMsg(msg) THEN @ \cup {msg.contract_addr} ELSE @,
                !.torn = @ \/ (IsExecuteMsg(msg) /\ msg.contract_addr \in rec.changed)]

Dispatched1(t, d) ==
    /\ d.W.height + 1 <= BLOCK_HEIGHT_INIT + MaxThreadInc
    /\ ENGINES' = d.W.engines
    /\ BLOCK_HEIGHT' = d.W.height
    /\ Goto(t, dispatched(thr[t], Head(thr[t].msgs)))
    /\ UNCHANGED <<last, mock_storage, sop, scans, iop, qry, stack, completed, lazy>>

\* execute_contract_response, one message of the response: ENGINES.get_mut of
\* its target and the target's execute, or the attribute for a missing target
Dispatch(t) ==
    /\ At(t, "dispatch")
    /\ Dispatched1(t, execute_contract_response(World(ENGINES, BLOCK_HEIGHT), thr[t].addr,
                                               <<Head(thr[t].msgs)>>, 1))

\* "BLOCK_HEIGHT += 1": the read
ReadHeight(t) ==
    /\ At(t, "read_height")
    /\ Goto(t, [thr[t] EXCEPT !.pc = "write_height", !.reg = BLOCK_HEIGHT])
    /\ UNCHANGED <<ENGINES, BLOCK_HEIGHT, last, mock_storage, sop, scans, iop, qry, stack, completed, lazy>>

\* "BLOCK_HEIGHT += 1": the write
WriteHeight(t) ==
    /\ At(t, "write_height")
    /\ BLOCK_HEIGHT' = thr[t].reg + 1
    /\ Goto(t, [thr[t] EXCEPT !.pc = "store_env", !.reg = 0])
    /\ UNCHANGED <<ENGINES, last, mock_storage, sop, scans, iop, qry, stack, completed, lazy>>

\* "self.env.block.height = BLOCK_HEIGHT".  When the watcher replaced the
\* instance meanwhile, self is the value that ENGINES.insert dropped: the
\* write lands on the instance now in the slot, or nowhere.
StoreEnv(t, lands) ==
    /\ At(t, "store_env")
    /\ lands \/ thr[t].stale
    /\ ENGINES' = IF lands
                  THEN [ENGINES EXCEPT ![thr[t].addr].env.height = BLOCK_HEIGHT]
                  ELSE ENGINES
    /\ Goto(t, Idle)
    /\ UNCHANGED <<BLOCK_HEIGHT, last, mock_storage, sop, scans, iop, qry, stack, completed, lazy>>

\* watch_and_update finds the file of addr changed: new_instance clones the
\* storage of the installed instance, or starts from a fresh one
WatchClone(addr) ==
    /\ At("watch", "idle")
    /\ ~first_pass_over => addr = wasm_files[thr["watch"].reg + 1]
    /\ Goto("watch", [thr["watch"] EXCEPT !.pc = "compile", !.addr = addr,
                        !.engine = Some(IF addr \in DOMAIN ENGINES
                                        THEN ENGINES[addr].storage
                                        ELSE MockStorage_default)])
    /\ UNCHANGED <<ENGINES, BLOCK_HEIGHT, last, mock_storage, sop, scans, iop, qry, stack, completed, lazy>>

\* the module is read and compiled, and make_instance reads BLOCK_HEIGHT
WatchMake(outcome) ==
    /\ At("watch", "compile")
    /\ Goto("watch",
            IF outcome = "ok"
            THEN [thr["watch"] EXCEPT !.pc = "insert",
                    !.engine = Some(new_instance(wasm_file(thr["watch"].addr),
                                                 thr["watch"].addr,
                                                 thr["watch"].engine[1],
                                                 BLOCK_HEIGHT, outcome).engine)]
            ELSE next_file(thr["watch"]))
    /\ UNCHANGED <<ENGINES, BLOCK_HEIGHT, last, mock_storage, sop, scans, iop, qry, stack, completed, lazy>>

\* a call on addr that has not yet stored its height holds the replaced instance
holds_replaced(rec, addr) ==
    IF rec.pc \in {"dispatch", "read_height", "write_height", "store_env"}
         /\ rec.addr = addr /\ addr \in DOMAIN ENGINES
    THEN [rec EXCEPT !.stale = TRUE] ELSE rec

\* a call in flight has looked addr up before this insert
seen_before(rec, addr) ==
    IF rec.pc # "idle" /\ rec.addr # addr /\ addr \in rec.looked
    THEN [rec EXCEPT !.changed = @ \cup {addr}] ELSE rec

\* insert_engine: ENGINES.insert(contract_addr, engine)
WatchInsert ==
    /\ At("watch", "insert")
    /\ ENGINES' = Insert(ENGINES, thr["watch"].addr, thr["watch"].engine[1])
    /\ thr' = [t \in Threads |->
                 IF t = "watch" THEN next_file(thr[t])
                 ELSE seen_before(holds_replaced(thr[t], thr["watch"].addr),
                                  thr["watch"].addr)]
    /\ UNCHANGED <<BLOCK_HEIGHT, last, mock_storage, sop, scans, iop, qry, stack, completed, lazy>>

ConcNext ==
    \/ \E t \in Callers, a \in Addrs, p \in ThreadPayloads : ThreadCall(t, a, p)
    \/ \E t \in Callers : Dispatch(t)
    \/ \E t \in Callers : ReadHeight(t)
    \/ \E t \in Callers : WriteHeight(t)
    \/ \E t \in Callers, lands \in BOOLEAN : StoreEnv(t, lands)
    \/ \E a \in Addrs : WatchClone(a)
    \/ \E o \in LoadOutcomes : WatchMake(o)
    \/ WatchInsert

ConcSpec == Init /\ [][ConcNext]_vars

\* the threads that are inside a call or a load
InFlight == {t \in Threads : thr[t].pc # "idle"}

\* C18: at most one lifecycle call or load/replace is in flight at any time,
\* the REST thread, the simulation loop and the watcher excluding one another.
C18_OneInFlight == Cardinality(InFlight) <= 1

\* C19: a call against one address sees a load or replacement of another
\* address as atomic: it does not find the Registry as it was before the
\* replacement at one lookup and as it is after it at a later one.
C19_ReloadAtomicForOthers == \A t \in Callers : ~thr[t].torn

\* C3: the height of the instance registered at an address never decreases,
\* over any sequence of calls and hot reloads, also when the calls of the
\* REST thread and of the simulation loop interleave on the shared counter.
C3_HeightNeverDecreases ==
    [][\A a \in (DOMAIN ENGINES) \cap (DOMAIN ENGINES') :
         HeightOf(ENGINES', a) >= HeightOf(ENGINES, a)]_vars

(***************************************************************************)
(* MockStorage with its iterators: scan, next, the writes made between     *)
(* them, and the copy a hot reload takes.  scans keeps, for each scan in   *)
(* order, the id it returned, the entries that were in its range (want),   *)
(* the items it snapshot (plan) and the items next has returned for that   *)
(* id since (got).                                                         *)
(***************************************************************************)
MaxIters == 2

Orders == {"Ascending", "Descending"}
ScanBounds == {None} \cup {Some(k) : k \in StoreKeys}
IteratorIds == 1..(MaxIters + 1)
\* the writes made between scans: every key, and a second value for one of them
IterWrites == {<<k, <<7>>>> : k \in StoreKeys} \cup {<<KeyK, <<>>>>}

\* the entries with start <= key < end, a missing bound being no bound
Wanted(data, start, end) ==
    {<<k, data[k]>> : k \in {x \in DOMAIN data :
                               /\ start = None \/ ~LexLess(x, start[1])
                               /\ end = None \/ LexLess(x, end[1])}}

ScanMade(r, start, end, order) ==
    [id |-> IF r.res.ok THEN r.res.val ELSE 0,
     order |-> order,
     inverted |-> start # None /\ end # None /\ LexLess(end[1], start[1]),
     want |-> Wanted(mock_storage.data, start, end),
     plan |-> IF r.res.ok THEN r.st.iterators[r.res.val].data ELSE <<>>,
     got |-> <<>>, done |-> FALSE]

IterOp(op, id, r) == [op |-> op, id |-> id, res |-> r.res, gas |-> r.gas]

Scanned(r, start, end, order) ==
    /\ mock_storage' = r.st
    /\ iop' = IterOp("scan", IF r.res.ok THEN r.res.val ELSE 0, r)
    /\ scans' = Append(scans, ScanMade(r, start, end, order))
    /\ UNCHANGED <<ENGINES, BLOCK_HEIGHT, last, thr, sop, qry, stack, completed, lazy>>

Scan(start, end, order) ==
    /\ Len(scans) < MaxIters
    /\ Scanned(scan(mock_storage, start, end, order), start, end, order)

\* what the scans have returned, after next on iterator_id returned r
Returns(r, iterator_id) ==
    [i \in DOMAIN scans |->
       IF scans[i].id # iterator_id \/ ~r.res.ok THEN scans[i]
       ELSE IF r.res.val = None THEN [scans[i] EXCEPT !.done = TRUE]
       ELSE [scans[i] EXCEPT !.got = Append(@, r.res.val[1])]]

NextCalled(r, iterator_id) ==
    /\ mock_storage' = r.st
    /\ iop' = IterOp("next", iterator_id, r)
    /\ scans' = Returns(r, iterator_id)
    /\ UNCHANGED <<ENGINES, BLOCK_HEIGHT, last, thr, sop, qry, stack, completed, lazy>>

IterNext(iterator_id) ==
    /\ iterator_id \in IteratorIds
    /\ NextCalled(next(mock_storage, iterator_id), iterator_id)

IterSet(key, value) ==
    /\ mock_storage' = set(mock_storage, key, value).st
    /\ iop' = [NoIterOp EXCEPT !.op = "set"]
    /\ UNCHANGED <<ENGINES, BLOCK_HEIGHT, last, thr, sop, qry, scans, stack, completed, lazy>>

IterRemove(key) ==
    /\ mock_storage' = remove(mock_storage, key).st
    /\ iop' = [NoIterOp EXCEPT !.op = "remove"]
    /\ UNCHANGED <<ENGINES, BLOCK_HEIGHT, last, thr, sop, qry, scans, stack, completed, lazy>>

\* new_instance on a reload: the backend of the new instance gets storage.to_owned()
HotReloadCopy ==
    /\ mock_storage' = clone(mock_storage)
    /\ iop' = [NoIterOp EXCEPT !.op = "clone"]
    /\ UNCHANGED <<ENGINES, BLOCK_HEIGHT, last, thr, sop, qry, scans, stack, completed, lazy>>

ScanNext ==
    \/ \E st \in ScanBounds, en \in ScanBounds, o \in Orders : Scan(st, en, o)
    \/ \E id \in IteratorIds : IterNext(id)
    \/ \E w \in IterWrites : IterSet(w[1], w[2])
    \/ \E k \in StoreKeys : IterRemove(k)
    \/ HotReloadCopy

ScanSpec == Init /\ [][ScanNext]_vars

(***************************************************************************)
(* Properties of the iterators.                                            *)
(***************************************************************************)
Items(seq) == {seq[j] : j \in 1..Len(seq)}
KeyOf(item) == item[1]
InOrder(order, first, second) ==
    IF order = "Ascending" THEN LexLess(KeyOf(first), KeyOf(second))
    ELSE LexLess(KeyOf(second), KeyOf(first))
ScanOf(iterator_id) == {i \in DOMAIN scans : scans[i].id = iterator_id}

\* C11: the items an iterator returns through successive next calls are entries
\* with start <= key < end as they were at the scan, in strictly increasing key
\* order for Ascending and strictly decreasing for Descending (so each once),
\* and when next returns None they are all of them.
C11_ScanYieldsRange ==
    \A i \in DOMAIN scans :
        /\ Items(scans[i].got) \subseteq scans[i].want
        /\ \A j, k \in 1..Len(scans[i].got) :
             j < k => InOrder(scans[i].order, scans[i].got[j], scans[i].got[k])
        /\ scans[i].done => Items(scans[i].got) = scans[i].want

\* a descending iterator has returned the three entries, last key first, and then None
C11_Witness ==
    \E i \in DOMAIN scans :
        /\ scans[i].done /\ scans[i].order = "Descending"
        /\ scans[i].got = << <<(<<1, 2>>), <<7>> >>, <<(<<1>>), <<7>> >>, <<(<<>>), <<7>> >> >>

\* C12: a scan with both bounds given and start > end does not fail: it returns
\* the id of a new iterator, whose next returns None from the first call on,
\* whatever the order and the contents of the store.
C12_InvertedRangeIsEmpty ==
    /\ (iop.op = "scan" /\ scans[Len(scans)].inverted) =>
         /\ iop.res.ok
         /\ iop.res.val \in DOMAIN mock_storage.iterators
         /\ \A i \in 1..(Len(scans) - 1) : scans[i].id # iop.res.val
    /\ \A i \in DOMAIN scans :
         scans[i].inverted =>
           /\ scans[i].got = <<>>
           /\ next(mock_storage, scans[i].id).res.ok
           /\ next(mock_storage, scans[i].id).res.val = None

\* next has just returned None on the iterator of an inverted range over a
\* store holding all three keys
C12_Witness ==
    /\ iop.op = "next" /\ iop.res.ok /\ iop.res.val = None
    /\ \E i \in ScanOf(iop.id) : scans[i].inverted /\ scans[i].done
    /\ DOMAIN mock_storage.data = StoreKeys

\* the items the next calls on an iterator will return from here on
RECURSIVE Future(_, _)
Future(st, iterator_id) ==
    IF ~next(st, iterator_id).res.ok \/ next(st, iterator_id).res.val = None
    THEN <<>>
    ELSE <<next(st, iterator_id).res.val[1]>> \o Future(next(st, iterator_id).st, iterator_id)

\* C13: what an iterator returns is fixed when scan creates it: after any later
\* set or remove, the items already returned followed by the items still to be
\* returned are the items snapshot by the scan.
C13_SnapshotFixed ==
    \A i \in DOMAIN scans :
        scans[i].got \o Future(mock_storage, scans[i].id) = scans[i].plan

\* an iterator has items left of which one's entry was removed since and
\* another's was overwritten
C13_Witness ==
    \E i \in DOMAIN scans :
        /\ scans[i].got # <<>>
        /\ \E j, k \in (Len(scans[i].got) + 1)..Len(scans[i].plan) :
             /\ KeyOf(scans[i].plan[j]) \notin DOMAIN mock_storage.data
             /\ KeyOf(scans[i].plan[k]) \in DOMAIN mock_storage.data
             /\ mock_storage.data[KeyOf(scans[i].plan[k])] # scans[i].plan[k][2]

\* C14: the id a scan returns is greater than every id returned before on the
\* store, also after next, set, remove and a hot-reload copy, is not the id of
\* an existing iterator, and the scan leaves the existing iterators as they are.
C14_IteratorIdsIncrease ==
    [][Len(scans') = Len(scans) + 1 =>
         /\ \A i \in DOMAIN scans : scans[i].id < scans'[Len(scans')].id
         /\ scans'[Len(scans')].id \notin DOMAIN mock_storage.iterators
         /\ \A id \in DOMAIN mock_storage.iterators :
              mock_storage'.iterators[id] = mock_storage.iterators[id]]_vars

\* a second scan was made after the first iterator had returned an item
C14_Witness ==
    /\ iop.op = "scan" /\ Len(scans) = 2
    /\ scans[1].got # <<>>
    /\ scans[2].id = 2

\* C15: once next has returned None on an iterator, a next on it returns
\* Ok(None), whatever set, remove and scan came in between.
C15_ExhaustedStaysExhausted ==
    \A i \in DOMAIN scans :
        scans[i].done =>
          /\ next(mock_storage, scans[i].id).res.ok
          /\ next(mock_storage, scans[i].id).res.val = None

\* an iterator that returned items and then None, a second scan and a write
\* having come after
C15_Witness ==
    /\ iop.op = "set" /\ Len(scans) = 2
    /\ scans[1].done /\ scans[1].got # <<>>

\* C16: next with an id that no scan on the store has returned fails with the
\* iterator-not-found error, charges no gas and leaves the data and every
\* iterator as they were.
C16_UnknownIteratorId ==
    [][(iop'.op = "next" /\ \A i \in DOMAIN scans : scans[i].id # iop'.id) =>
         /\ ~iop'.res.ok
         /\ iop'.res.val = iterator_does_not_exist(iop'.id)
         /\ iop'.gas = [cost |-> 0, externally_used |-> 0]
         /\ mock_storage' = mock_storage]_vars

\* next was refused on a store with an iterator part-way through its items
C16_Witness ==
    /\ iop.op = "next" /\ ~iop.res.ok
    /\ Len(scans) = 1 /\ iop.id = 2
    /\ scans[1].got # <<>> /\ Len(scans[1].got) < Len(scans[1].plan)

(***************************************************************************)
(* BankQuerier::query on its own (querier.rs): a table of balances and one *)
(* bank query.                                                             *)
(***************************************************************************)
MaxCoins == 2

BankAddrs == {"alice", "bob"}
Denoms == {"orai", "atom"}
Coin(denom, amount) == [denom |-> denom, amount |-> amount]
\* the coin lists an address can hold, a denom twice included
CoinLists == SeqsUpTo({Coin(dn, am) : dn \in Denoms, am \in {0, 5}}, MaxCoins)
\* BankQuerier::new: a map from the addresses given to their coins
BalanceTables ==
    UNION {[A -> CoinLists] : A \in SUBSET BankAddrs}

Balance(address, denom) == [type |-> "balance", address |-> address, denom |-> denom]
AllBalances(address) == [type |-> "all_balances", address |-> address, denom |-> ""]
BankQueries ==
    {Balance(a, dn) : a \in BankAddrs \cup {"carol"}, dn \in Denoms \cup {"uusd"}}
      \cup {AllBalances(a) : a \in BankAddrs \cup {"carol"}}

\* to_binary(..).into(): the response serialized, as the Ok of a ContractResult
to_binary(response) == <<"json", response>>
ContractOk(v) == [ok |-> TRUE, val |-> v]
ContractErr(e) == [ok |-> FALSE, val |-> e]

\* v.iter().find(|c| &c.denom == denom).map(|c| c.amount)
find_amount(coins, denom) ==
    IF \E i \in 1..Len(coins) : coins[i].denom = denom
    THEN Some(coins[CHOOSE i \in 1..Len(coins) :
                      /\ coins[i].denom = denom
                      /\ \A j \in 1..(i - 1) : coins[j].denom # denom].amount)
    ELSE None

\* Option::unwrap_or_default on a Uint128
unwrap_or_zero(opt) == IF opt = None THEN 0 ELSE opt[1]

balance_of(balances, address, denom) ==
    IF address \in DOMAIN balances
    THEN unwrap_or_zero(find_amount(balances[address], denom)) ELSE 0

\* a bank that refuses an address it has no entry for
BankQuerier_query_strict(balances, request) ==
    IF request.address \notin DOMAIN balances
    THEN SystemOk(ContractErr("not found"))
    ELSE IF request.type = "balance"
    THEN SystemOk(ContractOk(to_binary(
           [amount |-> Coin(request.denom,
                            balance_of(balances, request.address, request.denom))])))
    ELSE SystemOk(ContractOk(to_binary([amount |-> balances[request.address]])))

BankQuerier_query(balances, request) ==
    IF request.type = "balance"
    THEN SystemOk(ContractOk(to_binary(
           [amount |-> Coin(request.denom,
                            balance_of(balances, request.address, request.denom))])))
    ELSE SystemOk(ContractOk(to_binary(
           [amount |-> IF request.address \in DOMAIN balances
                       THEN balances[request.address] ELSE <<>>])))

NoBankQuery == [type |-> "none", address |-> "", denom |-> ""]

\* BankQuerier::new: the table is given once and never changes
BankNew(balances) ==
    /\ qry.op = "none"
    /\ qry' = [op |-> "bank_new", balances |-> balances, request |-> NoBankQuery,
               result |-> SystemErr("none")]
    /\ UNCHANGED <<ENGINES, BLOCK_HEIGHT, last, thr, mock_storage, sop, scans, iop, stack, completed, lazy>>

BankQuery(request) ==
    /\ qry.op \in {"bank_new", "bank"}
    /\ qry' = [qry EXCEPT !.op = "bank", !.request = request,
                          !.result = BankQuerier_query(qry.balances, request)]
    /\ UNCHANGED <<ENGINES, BLOCK_HEIGHT, last, thr, mock_storage, sop, scans, iop, stack, completed, lazy>>

BankNext ==
    \/ \E b \in BalanceTables : BankNew(b)
    \/ \E rq \in BankQueries : BankQuery(rq)

BankSpec == Init /\ [][BankNext]_vars

\* the answer of the bank query just made, read back from its serialization
BankAnswer == qry.result.val.val[2].amount
Known == qry.request.address \in DOMAIN qry.balances
StoredAmounts ==
    {qry.balances[qry.request.address][i].amount :
       i \in {j \in 1..Len(qry.balances[qry.request.address]) :
                qry.balances[qry.request.address][j].denom = qry.request.denom}}

CallParam == last.msg.param
\* the text the specification states for a successful call of a kind
StatedSucceeded(kind) ==
    CASE kind = "instantiate" -> <<"{\"message\":\"instantiate succeeded\"}">>
      [] kind = "execute" -> <<"{\"message\":\"execute succeeded\"}">>
\* the call just made reached the instance with one of the three kinds
KindCall(kind) == last.op = "call" /\ last.called /\ last.func_type = kind
\* the attributes of the call just made that report a dispatched sub-call which
\* succeeded
SucceededSubCalls ==
    {i \in 1..Len(ExecuteMsgs) :
        /\ TargetPresent(ExecuteMsgs[i])
        /\ ExecuteMsgs[i].msg.outcome = "ok"}

\* C21 as stated: a successful instantiate or execute returns
\* {"message":"<kind> succeeded"} with <kind> the requested kind, a successful
\* query returns the raw bytes of the query data, every failure returns
\* {"error":"<description>"}, and the attribute of a successfully dispatched
\* sub-call has the value {"message":"execute succeeded"}.
C21_KindSucceeded ==
    /\ \A kind \in {"instantiate", "execute"} :
         (KindCall(kind) /\ CallParam.outcome = "ok") =>
            /\ last.result = Ok(StatedSucceeded(kind))
            /\ \A i \in SucceededSubCalls :
                 last.attributes[i].value = StatedSucceeded("execute")
    /\ (KindCall("query") /\ CallParam.outcome = "ok") =>
          last.result = Ok(<<"text", CallParam.data>>)
    /\ (last.op = "call" /\ last.called /\ ~last.ok) =>
          /\ last.result.ok /\ Len(last.result.val) = 3
          /\ last.result.val[1] = "{\"error\":\"" /\ last.result.val[3] = "\"}"

\* C21 amended: a successful instantiate returns {"message":"init succeeded"} and
\* a successful execute {"message":"handle succeeded"}, whatever the sub-calls
\* did; a successful query returns the query data as text when the bytes are
\* non-empty UTF-8 and as lower-case hex digits otherwise; a contract error, a
\* backend error and an unknown kind return {"error":"<description>"}; the
\* attribute of a successfully dispatched sub-call has the value
\* {"message":"handle succeeded"}.
C21_CallReturns ==
    /\ (KindCall("instantiate") /\ CallParam.outcome = "ok") =>
          last.result = Ok(<<"{\"message\":\"init succeeded\"}">>)
    /\ (KindCall("execute") /\ CallParam.outcome = "ok") =>
          last.result = Ok(<<"{\"message\":\"handle succeeded\"}">>)
    /\ (last.op = "call" /\ last.called /\ last.func_type \in {"instantiate", "execute"}
          /\ CallParam.outcome = "ok") =>
          \A i \in SucceededSubCalls :
             last.attributes[i] = [key |-> ExecuteMsgs[i].contract_addr,
                                   value |-> <<"{\"message\":\"handle succeeded\"}">>]
    /\ (KindCall("query") /\ CallParam.outcome = "ok") =>
          last.result = Ok(IF IsUtf8(CallParam.data) /\ CallParam.data # <<>>
                           THEN <<"text", CallParam.data>>
                           ELSE <<"hex", CallParam.data>>)
    /\ (last.op = "call" /\ last.called
          /\ last.func_type \in {"instantiate", "execute", "query"}
          /\ CallParam.outcome # "ok") =>
          last.result = Ok(<<"{\"error\":\"",
                             IF CallParam.outcome = "contract_err"
                             THEN "contract error" ELSE "vm error",
                             "\"}">>)
    /\ (last.op = "call" /\ last.called
          /\ last.func_type \notin {"instantiate", "execute", "query"}) =>
          last.result = Ok(<<"{\"error\":\"",
                             <<"wrong dispatcher call ", last.func_type>>, "\"}">>)

\* an instantiate succeeded whose response carried an execute message that the
\* target ran with success
C21_Witness ==
    /\ KindCall("instantiate") /\ CallParam.outcome = "ok"
    /\ SucceededSubCalls # {}
    /\ last.result = Ok(InitSucceeded)
    /\ \E i \in SucceededSubCalls : last.attributes[i].value = HandleSucceeded

(***************************************************************************)
(* The accounts: prepare_command_line builds ACCOUNTS from the built-in    *)
(* default sender and the -b balances, and call_engine picks one of them.  *)
(***************************************************************************)
MaxBalances == 2

\* the addresses a -b balance may name, and the order of Addr (String::cmp) over
\* the addresses of the model
BalanceAddrs == {"alice", DEFAULT_SENDER_ADDR, "zed"}
AddrOrder == <<"alice", DEFAULT_SENDER_ADDR, "nobody", "zed">>
cmp(a, b) ==
    (CHOOSE i \in 1..Len(AddrOrder) : AddrOrder[i] = a)
      - (CHOOSE i \in 1..Len(AddrOrder) : AddrOrder[i] = b)

CointBalance(address, amount) == [address |-> address, amount |-> amount]
CoinBalances == {CointBalance(a, n) : a \in BalanceAddrs, n \in {"0", "5"}}
BalanceArgs == SeqsUpTo(CoinBalances, MaxBalances)

MessageInfo(sender, funds) == [sender |-> sender, funds |-> funds]
default_account ==
    MessageInfo(DEFAULT_SENDER_ADDR, <<[denom |-> DENOM, amount |-> DEFAULT_SENDER_BALANCE]>>)
\* add sent_funds if not zero
sent_funds(amount) ==
    IF amount = "0" THEN <<>> ELSE <<[denom |-> DENOM, amount |-> amount]>>

\* Vec::sort_by is stable: an entry goes after the entries that do not compare
\* greater than it
insert_by_sender(sorted, x) ==
    LET before == {i \in 1..Len(sorted) : cmp(sorted[i].sender, x.sender) <= 0}
        k == Cardinality(before)
    IN SubSeq(sorted, 1, k) \o <<x>> \o SubSeq(sorted, k + 1, Len(sorted))
RECURSIVE sort_by_sender(_)
sort_by_sender(s) ==
    IF s = <<>> THEN <<>>
    ELSE insert_by_sender(sort_by_sender(SubSeq(s, 1, Len(s) - 1)), s[Len(s)])

\* prepare_command_line: the default account, then one per -b balance, sorted
prepare_accounts(coin_balances) ==
    sort_by_sender(<<default_account>>
                   \o [i \in 1..Len(coin_balances) |->
                         MessageInfo(coin_balances[i].address,
                                     sent_funds(coin_balances[i].amount))])

\* the process starts with some -b balances
AccountsNew(coin_balances) ==
    /\ qry.op = "none"
    /\ qry' = [op |-> "accounts", accounts |-> prepare_accounts(coin_balances),
               account |-> None, result |-> Err(<<>>)]
    /\ UNCHANGED <<ENGINES, BLOCK_HEIGHT, last, thr, mock_storage, sop, scans, iop, stack, completed, lazy>>

\* a call names an account, or none
AccountResolve(account) ==
    /\ qry.op \in {"accounts", "resolve"}
    /\ qry' = [qry EXCEPT !.op = "resolve", !.account = account,
                          !.result = find_account(qry.accounts, account)]
    /\ UNCHANGED <<ENGINES, BLOCK_HEIGHT, last, thr, mock_storage, sop, scans, iop, stack, completed, lazy>>

AccountNext ==
    \/ \E b \in BalanceArgs : AccountsNew(b)
    \/ \E acc \in AccountArgs \cup {Some("zed")} : AccountResolve(acc)

AccountSpec == Init /\ [][AccountNext]_vars

\* the call just resolved named no account
NoAccountGiven == qry.op = "resolve" /\ qry.account \in {None, Some("")}
Senders == {qry.accounts[i].sender : i \in 1..Len(qry.accounts)}

\* C22 as stated: when a call names no account (absent or empty) the account
\* used is the lexicographically first address among the configured accounts,
\* for every set of configured accounts.
C22_FirstAccountIsDefault ==
    NoAccountGiven =>
       /\ qry.result.ok
       /\ \A s \in Senders : cmp(qry.result.val.sender, s) <= 0

\* C22 amended: when a call names no account (absent or empty) the account used
\* is the built-in account fake_sender_addr with its built-in balance, for every
\* set of configured accounts, also one with an address that sorts before it or
\* with a balance given for fake_sender_addr itself.
C22_DefaultAccount ==
    NoAccountGiven => qry.result = Ok(default_account)

\* no account was named while an address sorting before fake_sender_addr and a
\* second balance for fake_sender_addr were configured
C22_Witness ==
    /\ NoAccountGiven
    /\ Len(qry.accounts) = 3
    /\ qry.accounts[1].sender = "alice"
    /\ qry.accounts[3] = MessageInfo(DEFAULT_SENDER_ADDR, sent_funds("5"))
    /\ qry.result = Ok(default_account)

(***************************************************************************)
(* Errors of a call.                                                       *)
(***************************************************************************)
\* the call just made named an account that is not configured
UnknownAccount ==
    /\ last.op = "call"
    /\ last.account # None
    /\ last.account[1] # ""
    /\ \A i \in 1..Len(ACCOUNTS) : ACCOUNTS[i].sender # last.account[1]
\* the call just made named a contract that was not in the Registry
AbsentContract ==
    /\ last.op = "call"
    /\ last.contract_addr \notin DOMAIN last.pre.ENGINES

\* C23: a call with an account that is not configured returns an error naming the
\* account, and one with a contract address absent from the Registry returns a
\* 'No such contract' error; in both cases no entry point is invoked (neither
\* the instance's nor, through the dispatcher, another one's) and the Registry
\* with its Stores and heights and the block height are what they were before the
\* call, so that the calls that follow find the state the failed call found.
C23_ResolutionErrorsChangeNothing ==
    (UnknownAccount \/ AbsentContract) =>
        /\ ~last.called
        /\ last.log = <<>> /\ last.out = <<>> /\ last.attributes = <<>>
        /\ ENGINES = last.pre.ENGINES
        /\ BLOCK_HEIGHT = last.pre.BLOCK_HEIGHT
        /\ last.result =
             IF UnknownAccount
             THEN Err(<<"No account found for ", last.account[1]>>)
             ELSE Err(<<"No such contract: ", last.contract_addr>>)

\* a state-changing call with an account that is not configured, on a contract
\* that is registered and has run before
C23_Witness ==
    /\ UnknownAccount /\ ~AbsentContract
    /\ last.func_type = "execute"
    /\ last.msg = Encoded(Payload("ok", <<"set", KeyK, ValV>>, <<>>))
    /\ BLOCK_HEIGHT > BLOCK_HEIGHT_INIT
    /\ last.result = Err(<<"No account found for ", "nobody">>)

\* the call just made reached the instance and the backend returned a contract
\* error or failed
BackendError ==
    /\ last.op = "call" /\ last.called
    /\ last.func_type \in {"instantiate", "execute", "query"}
    /\ CallParam.outcome \in {"contract_err", "vm_err"}
\* an entry of the Registry but for its Store
Registered(engines, a) == [wasm_file |-> engines[a].wasm_file, env |-> engines[a].env]

\* C24: when the backend returns a contract error or fails during instantiate,
\* execute or query, the call returns the {"error": ...} string, the instance
\* stays registered as it was (so the calls that follow reach it), no height is
\* incremented and no outbound message is dispatched.
C24_BackendErrorsAreReturned ==
    BackendError =>
        /\ last.result = Ok(<<"{\"error\":\"",
                              IF CallParam.outcome = "contract_err"
                              THEN "contract error" ELSE "vm error",
                              "\"}">>)
        /\ DOMAIN ENGINES = DOMAIN last.pre.ENGINES
        /\ \A a \in DOMAIN ENGINES : Registered(ENGINES, a) = Registered(last.pre.ENGINES, a)
        /\ BLOCK_HEIGHT = last.pre.BLOCK_HEIGHT
        /\ last.log = <<>> /\ last.attributes = <<>> /\ last.out = <<>>

\* an execute failed in the backend on an instance that had run before, after
\* the contract had written to its Store
C24_Witness ==
    /\ BackendError
    /\ last.func_type = "execute" /\ CallParam.outcome = "vm_err"
    /\ CallParam.write = <<"set", KeyK, ValV>>
    /\ BLOCK_HEIGHT > BLOCK_HEIGHT_INIT
    /\ ENGINES[last.contract_addr].storage # last.pre.ENGINES[last.contract_addr].storage

(***************************************************************************)
(* The attributes a call reports (dump_results, in the order of printing). *)
(***************************************************************************)
\* the call just made succeeded and its response carried execute messages
SuccessWithMessages == SuccessfulCall /\ ExecuteMsgs # <<>>
\* what the call itself printed last: the attributes after those its sub-calls
\* printed while the dispatcher ran
Reported ==
    LET n == Len(last.out)
        k == Len(last.attributes) + Len(OwnAttributes)
    IN IF n >= k THEN SubSeq(last.out, n - k + 1, n) ELSE <<>>

\* C25 as stated: for a successful instantiate or execute whose response carries
\* outbound messages, the attributes reported for the call list the contract's
\* own attributes first and the dispatcher's attributes after them.
C25_OwnAttributesFirst ==
    SuccessWithMessages => Reported = OwnAttributes \o last.attributes

\* C25 amended: for a successful instantiate or execute whose response carries
\* outbound messages, the attributes reported for the call list the attributes
\* produced by the dispatcher for the outbound messages first and the contract's
\* own attributes after them.
C25_DispatcherAttributesFirst ==
    SuccessWithMessages => Reported = last.attributes \o OwnAttributes

\* two execute messages, the first to a registered contract whose own sub-call
\* printed before the call did
C25_Witness ==
    /\ SuccessWithMessages
    /\ Len(last.attributes) = 2
    /\ last.attributes[1].value = HandleSucceeded
    /\ Len(last.out) > Len(Reported)
    /\ Reported = last.attributes \o OwnAttributes

\* the messages of the response of the call just made that are no execute of
\* another contract
IsOtherMsg(m) == ~IsExecuteMsg(m)
OtherMsgs == SelectSeq(last.msg.param.messages, IsOtherMsg)

\* C30: the outbound messages of a response that are not 'execute another
\* contract' are reported as attributes of the call, none of them being dropped:
\* besides the one attribute of each execute message, the call has an attribute
\* for each of the other messages.
C30_OtherMessagesReported ==
    SuccessfulCall =>
        Len(last.attributes) >= Len(ExecuteMsgs) + Len(OtherMsgs)

(***************************************************************************)
(* The gas the Store reports: every operation of MockStorage with the      *)
(* GasInfo it returns.                                                     *)
(***************************************************************************)
\* GasInfo::with_cost, GasInfo::with_externally_used
with_cost(amount) == [cost |-> amount, externally_used |-> 0]
with_externally_used(amount) == [cost |-> 0, externally_used |-> amount]

\* two keys, one the prefix of the other, and the bounds of the scans
GasKeys == {<<1>>, <<1, 2>>}
GasBounds == {None, Some(<<1, 2>>)}
NoGasOp ==
    [op |-> "none", key |-> <<>>, value |-> <<>>, start |-> None, end |-> None,
     order |-> "Ascending", id |-> 0, res |-> Ok(None), gas |-> with_cost(0)]

GasGet(key) ==
    /\ sop' = [NoGasOp EXCEPT !.op = "get", !.key = key,
                              !.res = Ok(get(mock_storage, key).res),
                              !.gas = with_externally_used(get(mock_storage, key).gas)]
    /\ UNCHANGED <<mock_storage, ENGINES, BLOCK_HEIGHT, last, thr, qry, scans, iop, stack, completed, lazy>>

GasSet(key, value) ==
    /\ mock_storage' = set(mock_storage, key, value).st
    /\ sop' = [NoGasOp EXCEPT !.op = "set", !.key = key, !.value = value,
                              !.gas = with_externally_used(set(mock_storage, key, value).gas)]
    /\ UNCHANGED <<ENGINES, BLOCK_HEIGHT, last, thr, qry, scans, iop, stack, completed, lazy>>

GasRemove(key) ==
    /\ mock_storage' = remove(mock_storage, key).st
    /\ sop' = [NoGasOp EXCEPT !.op = "remove", !.key = key,
                              !.gas = with_externally_used(remove(mock_storage, key).gas)]
    /\ UNCHANGED <<ENGINES, BLOCK_HEIGHT, last, thr, qry, scans, iop, stack, completed, lazy>>

\* the iterators of the store are followed up to MaxIters scans
GasScan(start, end, order) ==
    /\ Len(mock_storage.iterators) < MaxIters
    /\ mock_storage' = scan(mock_storage, start, end, order).st
    /\ sop' = [NoGasOp EXCEPT !.op = "scan", !.start = start, !.end = end,
                              !.order = order,
                              !.res = scan(mock_storage, start, end, order).res,
                              !.gas = scan(mock_storage, start, end, order).gas]
    /\ UNCHANGED <<ENGINES, BLOCK_HEIGHT, last, thr, qry, scans, iop, stack, completed, lazy>>

GasIterNext(iterator_id) ==
    /\ mock_storage' = next(mock_storage, iterator_id).st
    /\ sop' = [NoGasOp EXCEPT !.op = "next", !.id = iterator_id,
                              !.res = next(mock_storage, iterator_id).res,
                              !.gas = next(mock_storage, iterator_id).gas]
    /\ UNCHANGED <<ENGINES, BLOCK_HEIGHT, last, thr, qry, scans, iop, stack, completed, lazy>>

GasNext ==
    \/ \E k \in GasKeys : GasGet(k)
    \/ \E k \in GasKeys, v \in StoreValues : GasSet(k, v)
    \/ \E k \in GasKeys : GasRemove(k)
    \/ \E s \in GasBounds, e \in GasBounds, o \in Orders : GasScan(s, e, o)
    \/ \E id \in IteratorIds : GasIterNext(id)

GasSpec == Init /\ [][GasNext]_vars

\* the gas an operation reported, of either kind
Reported_gas == sop.gas.cost + sop.gas.externally_used

\* C29: the gas a Store operation reports is determined by its arguments and its
\* result alone: get and remove report the length of the key, set the length of
\* the key plus the length of the value, scan the fixed 11 whatever the range and
\* the store hold, next the length of the key plus the length of the value of
\* the item it returns while items remain, and the flat 37 once the iterator is
\* exhausted.
C29_GasByArguments ==
    /\ sop.op \in {"get", "remove"} => Reported_gas = Len(sop.key)
    /\ sop.op = "set" => Reported_gas = Len(sop.key) + Len(sop.value)
    /\ sop.op = "scan" => Reported_gas = 11
    /\ (sop.op = "next" /\ sop.res.ok) =>
          IF sop.res.val # None
          THEN Reported_gas = Len(sop.res.val[1][1]) + Len(sop.res.val[1][2])
          ELSE Reported_gas = 37

\* a next returned the item with the longer key and a value, out of a store
\* holding several entries
C29_Witness ==
    /\ sop.op = "next"
    /\ sop.res = Ok(Some(<<<<1, 2>>, <<7>>>>))
    /\ Reported_gas = 3
    /\ Cardinality(DOMAIN mock_storage.data) > 1

(***************************************************************************)
(* Recursive dispatch step by step: execute_raw runs the backend and hands *)
(* the messages of the response to execute_contract_response, which calls  *)
(* execute_raw of each target before the caller's execute_raw returns.     *)
(* stack.frames holds the execute_raw calls in progress, the innermost     *)
(* last.                                                                   *)
(***************************************************************************)
\* the frames are followed up to this depth
MaxDepth == 4

\* a contract that answers this payload with an execute message carrying the same
\* payload to the other contract
Ping == Payload("ping", NoWrite, <<>>)
peer(addr) == CHOOSE a \in Addrs : a # addr

\* the payloads of sub-calls that emit no message, and the payloads of calls
\* whose response carries one execute message for such a sub-call
Leaves == {SubOk, SubContractErr, SubVmErr}
Once(target, sub) == Payload("ok", NoWrite, <<WasmExecute(target, sub, MsgFunds)>>)
OncePayloads == {Once(t, s) : t \in Addrs, s \in Leaves}
DispatchPayloads ==
    {Ping, SubOk, SubContractErr, Payload("ok", NoWrite, <<BankSend>>)} \cup OncePayloads

\* cosmwasm_vm::call_execute as execute_raw sees it
call_execute(engines, addr, param) ==
    IF param.outcome = "ping"
    THEN [storage |-> engines[addr].storage, tag |-> "ok", attributes |-> OwnAttributes,
          messages |-> <<WasmExecute(peer(addr), param, <<>>)>>, err |-> ""]
    ELSE call_backend(engines[addr].storage, param)

\* an execute_raw about to run the backend
Frame(addr, param, info) ==
    [contract_addr |-> addr, param |-> param, info |-> info, pc |-> "call_execute",
     messages |-> <<>>, attributes |-> <<>>]
Top(st) == st.frames[Len(st.frames)]

\* a lookup that refuses targets beyond a depth of two
found_within_depth(engines, frames, msg) ==
    msg.contract_addr \in DOMAIN engines /\ Len(frames) < 2

\* a lookup that does not hand out an instance whose execute_raw is in progress
found_unless_running(engines, frames, msg) ==
    /\ msg.contract_addr \in DOMAIN engines
    /\ \A k \in 1..Len(frames) : frames[k].contract_addr # msg.contract_addr

\* ENGINES.get_mut(contract_addr) in execute_contract_response
found(engines, frames, msg) == msg.contract_addr \in DOMAIN engines

\* attributes.push and the next iteration of the for loop, in the innermost frame
resumed(frames, attribute) ==
    [frames EXCEPT ![Len(frames)].messages = Tail(@),
                   ![Len(frames)].attributes = Append(@, attribute)]

\* the innermost execute_raw returns res: to the dispatcher loop of its caller,
\* or to the front end
returned(st, res) ==
    LET n == Len(st.frames)
        done == Append(st.returns, [contract_addr |-> Top(st).contract_addr, depth |-> n])
    IN IF n = 1
       THEN [st EXCEPT !.frames = <<>>, !.result = Some(res), !.returns = done]
       ELSE [st EXCEPT !.frames = resumed(SubSeq(st.frames, 1, n - 1),
                                          [key |-> Top(st).contract_addr, value |-> res]),
                       !.returns = done]

\* a front end executes a registered contract
DispatchCall(addr, param) ==
    /\ stack = NoStack
    /\ addr \in DOMAIN ENGINES
    /\ BLOCK_HEIGHT < BLOCK_HEIGHT_INIT + MaxHeightInc
    /\ stack' = [NoStack EXCEPT !.frames = <<Frame(addr, param, find_account(ACCOUNTS, None).val)>>,
                                !.param = Some(param)]
    /\ UNCHANGED <<ENGINES, BLOCK_HEIGHT, last, thr, mock_storage, sop, qry, scans, iop, completed, lazy>>

\* execute_raw, "let result = call_execute(..)" and the error arms of the match
DispatchExecute ==
    /\ stack.frames # <<>>
    /\ Top(stack).pc = "call_execute"
    /\ LET b == call_execute(ENGINES, Top(stack).contract_addr, Top(stack).param)
       IN /\ ENGINES' = [ENGINES EXCEPT ![Top(stack).contract_addr].storage = b.storage]
          /\ stack' = IF b.tag = "ok"
                      THEN [stack EXCEPT !.frames[Len(stack.frames)] =
                                            [@ EXCEPT !.pc = "handle_callback",
                                                      !.messages = b.messages]]
                      ELSE returned(stack, ErrorJson(b.err))
    /\ UNCHANGED <<BLOCK_HEIGHT, last, thr, mock_storage, sop, qry, scans, iop, completed, lazy>>

\* execute_contract_response, one iteration of its loop: the message is skipped,
\* or reported as having no target, or its target's execute_raw is entered
DispatchMessage ==
    /\ stack.frames # <<>>
    /\ Top(stack).pc = "handle_callback"
    /\ Top(stack).messages # <<>>
    /\ LET msg == Head(Top(stack).messages)
       IN IF msg.type # "wasm_execute"
          THEN stack' = [stack EXCEPT !.frames[Len(stack.frames)].messages = Tail(@)]
          ELSE IF ~found(ENGINES, stack.frames, msg)
          THEN stack' = [stack EXCEPT !.frames =
                            resumed(@, [key |-> msg.contract_addr,
                                        value |-> NoSuchContractText(msg.contract_addr)])]
          ELSE /\ Len(stack.frames) < MaxDepth
               /\ stack' = [stack EXCEPT !.frames =
                               Append(@, Frame(msg.contract_addr, msg.msg,
                                               dispatch_info(Top(stack).contract_addr, msg)))]
    /\ UNCHANGED <<ENGINES, BLOCK_HEIGHT, last, thr, mock_storage, sop, qry, scans, iop, completed, lazy>>

\* execute_raw, the rest of its success arm once the dispatcher has returned: the
\* height advances and the success string is returned
DispatchSucceeded ==
    /\ stack.frames # <<>>
    /\ Top(stack).pc = "handle_callback"
    /\ Top(stack).messages = <<>>
    /\ BLOCK_HEIGHT' = BLOCK_HEIGHT + 1
    /\ ENGINES' = [ENGINES EXCEPT ![Top(stack).contract_addr].env.height = BLOCK_HEIGHT + 1]
    /\ stack' = returned(stack, HandleSucceeded)
    /\ UNCHANGED <<last, thr, mock_storage, sop, qry, scans, iop, completed, lazy>>

\* the front end has the result
DispatchTaken ==
    /\ stack.result # None
    /\ stack' = NoStack
    /\ UNCHANGED <<ENGINES, BLOCK_HEIGHT, last, thr, mock_storage, sop, qry, scans, iop, completed, lazy>>

\* the watcher loads a contract while no call is in progress
DispatchLoad(contract_addr) ==
    /\ stack = NoStack
    /\ contract_addr \notin DOMAIN ENGINES
    /\ ENGINES' = load_or_replace(ENGINES, contract_addr, BLOCK_HEIGHT, "ok")
    /\ UNCHANGED <<BLOCK_HEIGHT, last, thr, mock_storage, sop, qry, scans, iop, stack, completed, lazy>>

DispatchNext ==
    \/ \E a \in Addrs, p \in DispatchPayloads : DispatchCall(a, p)
    \/ DispatchExecute
    \/ DispatchMessage
    \/ DispatchSucceeded
    \/ DispatchTaken
    \/ \E a \in Addrs : DispatchLoad(a)

DispatchSpec == Init /\ [][DispatchNext]_vars

\* the thread that makes the call runs until the call returns
DispatchFairSpec ==
    /\ DispatchSpec
    /\ WF_vars(DispatchExecute) /\ WF_vars(DispatchMessage) /\ WF_vars(DispatchSucceeded)

\* a call is under way, or has just returned, in which every execute of one
\* contract emits an execute to the other, both being registered
MutualRecursion ==
    /\ stack.param = Some(Ping)
    /\ DOMAIN ENGINES = Addrs

\* C26: there is no cycle or depth guard: when every successful execute of A
\* emits an execute message to B and every successful execute of B emits one to A,
\* a call never completes: it returns no result, no execute_raw in progress ever
\* returns, and each new frame is entered by the contract the one before it
\* called.
C26_MutualRecursionNeverReturns ==
    MutualRecursion =>
        /\ stack.result = None
        /\ stack.returns = <<>>
        /\ stack.frames # <<>>
        /\ \A k \in 1..(Len(stack.frames) - 1) :
             /\ stack.frames[k].pc = "handle_callback"
             /\ stack.frames[k].messages # <<>>
             /\ stack.frames[k + 1].contract_addr = peer(stack.frames[k].contract_addr)

\* the mutual recursion has been followed to the depth of the model
C26_Witness ==
    /\ MutualRecursion
    /\ Len(stack.frames) = MaxDepth
    /\ stack.frames[1].contract_addr = stack.frames[3].contract_addr
    /\ BLOCK_HEIGHT = BLOCK_HEIGHT_INIT

\* a call is under way whose response carries one execute message, to another
\* contract or to the called contract itself, for a sub-call that emits no message
OnceRunning ==
    /\ stack.frames # <<>>
    /\ stack.param # None
    /\ stack.param[1] \in OncePayloads
\* the message of that call and whether its target was registered
OnceMsg == stack.param[1].messages[1]
\* that call has returned its result, the sub-call having returned before it
OnceReturned ==
    /\ stack.frames = <<>>
    /\ stack.param # None
    /\ stack.param[1] \in OncePayloads
    /\ stack.result = Some(HandleSucceeded)
    /\ \E a \in Addrs :
          stack.returns =
             IF OnceMsg.contract_addr \in DOMAIN ENGINES
             THEN <<[contract_addr |-> OnceMsg.contract_addr, depth |-> 2],
                    [contract_addr |-> a, depth |-> 1]>>
             ELSE <<[contract_addr |-> a, depth |-> 1]>>

\* C27: recursive dispatch re-enters while the outer call is in progress without
\* blocking: a call whose response contains an execute message, to another
\* contract or to the calling contract itself, whose sub-call emits no further
\* message always completes, the sub-call having finished before the outer call
\* returns.
C27_ReentryCompletes == OnceRunning ~> OnceReturned

\* a contract executed itself from its own response and both executes returned,
\* the inner one first
C27_Witness ==
    /\ stack.param = Some(Once("contract_a", SubOk))
    /\ stack.result = Some(HandleSucceeded)
    /\ stack.returns = <<[contract_addr |-> "contract_a", depth |-> 2],
                         [contract_addr |-> "contract_a", depth |-> 1]>>
    /\ ENGINES["contract_a"].env.height = BLOCK_HEIGHT

(***************************************************************************)
(* Several iterators on one store.                                         *)
(***************************************************************************)
\* C31: the iterators open on a store advance independently: a next on one
\* iterator leaves the data, the items of every iterator and the cursor of every
\* other iterator as they were, so that what each other iterator has still to
\* return is what it had to return before, however the next calls interleave.
C31_IteratorsIndependent ==
    [][iop'.op = "next" =>
         /\ mock_storage'.data = mock_storage.data
         /\ DOMAIN mock_storage'.iterators = DOMAIN mock_storage.iterators
         /\ \A id \in DOMAIN mock_storage.iterators :
              /\ mock_storage'.iterators[id].data = mock_storage.iterators[id].data
              /\ id # iop'.id =>
                   /\ mock_storage'.iterators[id] = mock_storage.iterators[id]
                   /\ Future(mock_storage', id) = Future(mock_storage, id)]_vars

\* two iterators over the same entries, one drained while the other, created
\* first, has returned one item of several
C31_Witness ==
    /\ iop.op = "next" /\ iop.id = 2
    /\ Len(scans) = 2
    /\ Len(scans[1].plan) > 1 /\ Len(scans[1].got) = 1 /\ ~scans[1].done
    /\ scans[2].done /\ Len(scans[2].got) > 1
    /\ Future(mock_storage, 1) # <<>>

(***************************************************************************)
(* The Environment of an instance.                                         *)
(***************************************************************************)
\* the Environment but for the block height
FixedEnv(engines, a) ==
    [time |-> engines[a].env.time, chain_id |-> engines[a].env.chain_id,
     address |-> engines[a].env.address]

\* C32: the chain id, the block time and the contract address of an instance
\* never change after the instance is created: no instantiate, execute, query or
\* dispatch modifies them (nor does a reload, which builds the same values), and
\* they are the values make_instance sets; only the block height varies.
C32_EnvFixed ==
    /\ [][\A a \in (DOMAIN ENGINES) \cap (DOMAIN ENGINES') :
            FixedEnv(ENGINES', a) = FixedEnv(ENGINES, a)]_vars
    /\ [](\A a \in DOMAIN ENGINES :
            FixedEnv(ENGINES, a)
              = [time |-> BLOCK_TIME, chain_id |-> CHAIN_ID, address |-> a])

\* a call whose dispatcher executed another instance has raised the heights of
\* both, and their Environments are otherwise what they were at creation
C32_Witness ==
    /\ SuccessfulCall /\ PresentMsgs # <<>>
    /\ \E a, b \in DOMAIN ENGINES :
         /\ a # b
         /\ HeightOf(ENGINES, a) > HeightOf(last.pre.ENGINES, a)
         /\ HeightOf(ENGINES, b) > HeightOf(last.pre.ENGINES, b)
         /\ FixedEnv(ENGINES, b) = FixedEnv(last.pre.ENGINES, b)

(***************************************************************************)
(* C33: the counter counts the successful instantiate and execute           *)
(* invocations.                                                             *)
(***************************************************************************)
\* the invocations of the last call that ran the backend of addr before the i-th
EarlierOn(i, addr) == {j \in 1..(i - 1) : last.seen[j].contract_addr = addr}

\* C33: as long as calls run one at a time, BLOCK_HEIGHT is 12345 plus the number
\* of instantiate and execute invocations that have returned successfully so far,
\* those made by the dispatcher included; no instance's block height exceeds the
\* counter; and the backend of an invocation sees the height its instance had
\* before the invocation's own increment: the first invocation of a call on an
\* instance sees the instance's height from before the call, the call's own
\* backend sees the whole Environment from before the call, and a successful call
\* leaves its instance above the height its backend saw
C33_CounterCountsSuccesses ==
    /\ BLOCK_HEIGHT = BLOCK_HEIGHT_INIT + completed
    /\ \A a \in DOMAIN ENGINES : HeightOf(ENGINES, a) <= BLOCK_HEIGHT
    /\ last.op = "call" =>
         /\ \A i \in DOMAIN last.seen :
              LET addr == last.seen[i].contract_addr IN
              /\ addr \in DOMAIN last.pre.ENGINES
              /\ last.seen[i].env.height >= HeightOf(last.pre.ENGINES, addr)
              /\ last.seen[i].env.height <= HeightOf(ENGINES, addr)
              /\ EarlierOn(i, addr) = {} =>
                   last.seen[i].env = last.pre.ENGINES[addr].env
         /\ (last.called /\ last.func_type \in {"instantiate", "execute"}) =>
              /\ Len(last.seen) >= 1
              /\ last.seen[1].contract_addr = last.contract_addr
              /\ last.ok => last.seen[1].env.height < HeightOf(ENGINES, last.contract_addr)

\* an execute that dispatched a successful execute has returned, on an instance
\* that had completed a call before
C33_Witness ==
    /\ last.op = "call"
    /\ last.func_type = "execute"
    /\ last.ok
    /\ \E j \in DOMAIN last.log : last.log[j].result = HandleSucceeded
    /\ Len(last.seen) >= 2
    /\ last.seen[1].env.height > BLOCK_HEIGHT_INIT
    /\ completed >= 3

(***************************************************************************)
(* C34: the writes of a call and a hot reload of its instance.             *)
(***************************************************************************)
\* the callers inside a successful call on addr whose backend's store is the one
\* registered at addr
WritersOn(addr) ==
    {t \in Callers : /\ thr[t].pc # "idle"
                     /\ thr[t].addr = addr
                     /\ addr \in DOMAIN ENGINES
                     /\ thr[t].engine = Some(ENGINES[addr].storage)}

\* C34: no Store write of a successful call is lost to a hot reload: when the
\* watcher installs the replacement of an instance while a call on it is in
\* progress, the data the call's backend left in the registered Store is the
\* data of the Store registered after the insert.
C34_NoWriteLostToReload ==
    [][(At("watch", "insert") /\ ~At("watch", "insert")'
          /\ WritersOn(thr["watch"].addr) # {}) =>
         ENGINES'[thr["watch"].addr].storage.data
           = ENGINES[thr["watch"].addr].storage.data]_vars

(***************************************************************************)
(* C36, C37: the Registry under loads that fail and loads that succeed.    *)
(***************************************************************************)
\* C36: when the replacement instance cannot be built (the module cannot be read,
\* compiled or instantiated), the Registry is the one from before the load: an
\* instance already registered stays, with its Store and its height, and no entry
\* is added for an address that had none.
C36_FailedLoadChangesNothing ==
    (last.op = "load" /\ ~last.ok) =>
        /\ ENGINES = last.pre.ENGINES
        /\ BLOCK_HEIGHT = last.pre.BLOCK_HEIGHT

\* a load has failed for a registered instance that holds data and has advanced
C36_Witness ==
    /\ last.op = "load"
    /\ ~last.ok
    /\ last.contract_addr \in DOMAIN ENGINES
    /\ ENGINES[last.contract_addr].storage.data # <<>>
    /\ HeightOf(ENGINES, last.contract_addr) > BLOCK_HEIGHT_INIT
    /\ Addrs \ DOMAIN ENGINES # {}

\* C37: every key of the Registry is the contract address in the Environment of
\* the instance stored under it, and an address that has an entry has one from
\* then on: no operation removes an entry.
C37_KeysAreAddresses ==
    /\ [](\A a \in DOMAIN ENGINES : ENGINES[a].env.address = a)
    /\ [][DOMAIN ENGINES \subseteq DOMAIN ENGINES']_vars

\* a registered instance has been replaced while another one is registered
C37_Witness ==
    /\ last.op = "load"
    /\ last.ok
    /\ last.contract_addr \in DOMAIN last.pre.ENGINES
    /\ DOMAIN ENGINES = Addrs
    /\ ENGINES[last.contract_addr] # last.pre.ENGINES[last.contract_addr]

(***************************************************************************)
(* C38: a call of a kind the instance does not know.                       *)
(***************************************************************************)
KnownKinds == {"instantiate", "execute", "query"}

\* C38: a call whose kind is none of instantiate, execute and query returns the
\* error string naming the kind; no backend entry point runs and nothing is
\* dispatched; the Registry with every Store and height, and the counter, are
\* as before, and the gas used is 0.
C38_UnknownKindChangesNothing ==
    (last.op = "call" /\ last.called /\ last.func_type \notin KnownKinds) =>
        /\ last.result = Ok(ErrorJson(<<"wrong dispatcher call ", last.func_type>>))
        /\ ~last.ok
        /\ last.seen = <<>>
        /\ last.log = <<>>
        /\ last.out = <<>>
        /\ last.attributes = <<>>
        /\ last.gas_used = 0
        /\ ENGINES = last.pre.ENGINES
        /\ BLOCK_HEIGHT = last.pre.BLOCK_HEIGHT

\* a call of the kind migrate has reached an instance that holds data
C38_Witness ==
    /\ last.op = "call"
    /\ last.called
    /\ last.func_type = "migrate"
    /\ ENGINES[last.contract_addr].storage.data # <<>>
    /\ HeightOf(ENGINES, last.contract_addr) > BLOCK_HEIGHT_INIT

(***************************************************************************)
(* The start of the process.  prepare_command_line starts the REST server  *)
(* on a thread of its own, reads the list of files, spawns the watcher     *)
(* thread, which begins with ENGINES.init_once(), and waits on the channel *)
(* for the watcher's message before it enters the simulation loop.  The    *)
(* watcher goes over the files, sends after each pass, and goes over them  *)
(* again.  A load is one step here; the calls run one at a time.           *)
(***************************************************************************)
\* helper.rs init_once: Init becomes Value, Value is a panic
init_once(lz) ==
    IF lz = "Init" THEN Ok("Value")
    ELSE Err("call to init_once on already initialized value")

\* helper.rs deref_mut: self.init() makes an Init a Value, then the value is taken
deref_mut(lz) == "Value"

\* what the watcher finds for a file: its metadata cannot be read, its
\* modification time is the one remembered, or it is loaded with an outcome
FileOutcomes == {"metadata_error", "unchanged"} \cup LoadOutcomes

\* a watcher that notifies as soon as one file has been gone over
pass_over_at_first_file(rec) == rec.reg >= 1

\* watch_and_update: the for loop over the files has ended
pass_over(rec) == rec.reg = Len(wasm_files)

\* the calls made while the process starts
StartAccounts == {NoAccount, Some("nobody")}
StartFuncTypes == {"instantiate", "execute"}

StartInit ==
    /\ ENGINES = <<>>
    /\ BLOCK_HEIGHT = BLOCK_HEIGHT_INIT
    /\ last = NoLast
    /\ thr = [t \in Threads |->
                [Idle EXCEPT !.pc = IF t = "repl" THEN "start" ELSE "off"]]
    /\ mock_storage = MockStorage_default
    /\ sop = [NoStoreOp EXCEPT !.op = "new"] @@ [prev |-> NoStoreOp, pre |-> MockStorage_default]
    /\ qry = NoQuery
    /\ scans = <<>>
    /\ iop = NoIterOp
    /\ stack = NoStack
    /\ completed = 0
    /\ lazy = "Init"

\* prepare_command_line: start_server(port)
StartServer ==
    /\ At("repl", "start")
    /\ thr' = [thr EXCEPT !["repl"].pc = "run", !["rest"].pc = "idle"]
    /\ UNCHANGED <<ENGINES, BLOCK_HEIGHT, last, mock_storage, sop, scans, iop, qry, stack, completed, lazy>>

\* prepare_command_line: load_artifacts and thread::spawn of the watcher
SpawnWatch ==
    /\ At("repl", "run")
    /\ thr' = [thr EXCEPT !["repl"].pc = "recv", !["watch"].pc = "init_once"]
    /\ UNCHANGED <<ENGINES, BLOCK_HEIGHT, last, mock_storage, sop, scans, iop, qry, stack, completed, lazy>>

\* the watcher thread: "ENGINES.init_once()"; a panic ends the thread
InitOnce ==
    /\ At("watch", "init_once")
    /\ lazy' = IF init_once(lazy).ok THEN init_once(lazy).val ELSE lazy
    /\ Goto("watch", [thr["watch"] EXCEPT
                        !.pc = IF init_once(lazy).ok THEN "idle" ELSE "panicked"])
    /\ UNCHANGED <<ENGINES, BLOCK_HEIGHT, last, mock_storage, sop, scans, iop, qry, stack, completed>>

\* watch_and_update, one iteration of the for loop: looked collects the files
\* gone over, changed the addresses whose instance was built
WatchFile(outcome) ==
    LET addr == wasm_files[thr["watch"].reg + 1] IN
    /\ At("watch", "idle")
    /\ thr["repl"].pc # "exited"
    /\ thr["watch"].reg < Len(wasm_files)
    /\ ENGINES' = IF outcome \in LoadOutcomes
                  THEN load_or_replace(ENGINES, addr, BLOCK_HEIGHT, outcome)
                  ELSE ENGINES
    /\ Goto("watch",
            IF outcome = "metadata_error"
            THEN [thr["watch"] EXCEPT !.pc = "ended"]
            ELSE [thr["watch"] EXCEPT
                    !.reg = @ + 1,
                    !.looked = @ \cup {addr},
                    !.changed = IF outcome = "ok" THEN @ \cup {addr} ELSE @])
    /\ lazy' = IF outcome \in LoadOutcomes THEN deref_mut(lazy) ELSE lazy
    /\ UNCHANGED <<BLOCK_HEIGHT, last, mock_storage, sop, scans, iop, qry, stack, completed>>

\* watch_and_update, after the for loop: "sender.send(wasm_files[0].1)", then the
\* next pass; the messages sent after the first are never received
WatchSend ==
    /\ At("watch", "idle")
    /\ thr["repl"].pc # "exited"
    /\ pass_over(thr["watch"])
    /\ thr' = [thr EXCEPT
                 !["watch"].reg = 0,
                 !["repl"].msgs = IF thr["repl"].pc = "recv" /\ @ = <<>>
                                  THEN <<wasm_files[1]>> ELSE @]
    /\ UNCHANGED <<ENGINES, BLOCK_HEIGHT, last, mock_storage, sop, scans, iop, qry, stack, completed, lazy>>

\* prepare_command_line: "receiver.recv()" returns the address sent and
\* start_simulate_forever begins with it
Recv ==
    /\ At("repl", "recv")
    /\ thr["repl"].msgs # <<>>
    /\ Goto("repl", [thr["repl"] EXCEPT !.pc = "idle", !.addr = Head(thr["repl"].msgs),
                                           !.msgs = <<>>])
    /\ UNCHANGED <<ENGINES, BLOCK_HEIGHT, last, mock_storage, sop, scans, iop, qry, stack, completed, lazy>>

\* "receiver.recv()" fails when the watcher thread has ended without a message:
\* prepare_command_line returns and the process ends
RecvErr ==
    /\ At("repl", "recv")
    /\ thr["repl"].msgs = <<>>
    /\ thr["watch"].pc \in {"ended", "panicked"}
    /\ Goto("repl", [thr["repl"] EXCEPT !.pc = "exited"])
    /\ UNCHANGED <<ENGINES, BLOCK_HEIGHT, last, mock_storage, sop, scans, iop, qry, stack, completed, lazy>>

\* a REST route or the simulation loop calls call_engine: ENGINES is reached,
\* through deref_mut, when the account was found; looked collects the addresses
\* the thread has asked ENGINES for
StartCall(t, contract_addr, func_type, param, account) ==
    LET r == call_engine(World(ENGINES, BLOCK_HEIGHT), contract_addr, func_type,
                         Encoded(param), account)
        reached == find_account(ACCOUNTS, account).ok
    IN /\ At(t, "idle")
       /\ thr["repl"].pc # "exited"
       /\ r.inner.W.height <= BLOCK_HEIGHT_INIT + MaxThreadInc
       /\ ENGINES' = r.inner.W.engines
       /\ BLOCK_HEIGHT' = r.inner.W.height
       /\ lazy' = IF reached THEN deref_mut(lazy) ELSE lazy
       /\ thr' = [thr EXCEPT ![t].looked = IF reached THEN @ \cup {contract_addr} ELSE @]
       /\ UNCHANGED <<last, mock_storage, sop, scans, iop, qry, stack, completed>>

StartNext ==
    \/ StartServer
    \/ SpawnWatch
    \/ InitOnce
    \/ \E o \in FileOutcomes : WatchFile(o)
    \/ WatchSend
    \/ Recv
    \/ RecvErr
    \/ \E t \in Callers, a \in Addrs, f \in StartFuncTypes, acc \in StartAccounts :
         \E p \in ThreadPayloads : StartCall(t, a, f, p, acc)

StartSpec == StartInit /\ [][StartNext]_vars

\* C35: the watcher's init_once always finds the Registry uninitialized: no REST
\* handler reaches the Registry, and so initializes it, before the watcher
\* thread has run init_once, although the REST server is started first.
C35_InitOnceFindsInit ==
    /\ At("watch", "init_once") => lazy = "Init"
    /\ ~At("watch", "panicked")

\* C39: the simulation loop makes its first call only after the watcher has
\* gone once over every configured file: whenever the loop is running, every
\* file has been gone over and every contract whose module was loaded
\* successfully is in the Registry.
C39_LoopStartsAfterFirstPass ==
    At("repl", "idle") =>
        /\ \A i \in DOMAIN wasm_files : wasm_files[i] \in thr["watch"].looked
        /\ thr["watch"].changed \subseteq DOMAIN ENGINES
        /\ thr["repl"].addr = wasm_files[1]

\* the loop has called a contract that was loaded, after a pass in which the
\* other file could not be loaded
C39_Witness ==
    /\ At("repl", "idle")
    /\ thr["repl"].looked # {}
    /\ thr["watch"].changed # {}
    /\ Addrs \ DOMAIN ENGINES # {}
    /\ BLOCK_HEIGHT > BLOCK_HEIGHT_INIT

====
